---- MODULE Spec2Model ----
(***************************************************************************)
(* A model of the CHIP-8 emulator of rudsvar/chip-8: the Emulator struct   *)
(* of src/emulator/emulator.rs, its instruction decoder                    *)
(* (src/emulator/instruction.rs, src/bit_splitter.rs) and the DummyOutput  *)
(* screen (src/emulator/output.rs); and of the keyboard side of the        *)
(* crossterm frontend: KeyManager (src/bin/crossterm_frontend/             *)
(* key_manager.rs), KeyBuffer (key_buffer.rs) and the keypad mapping       *)
(* (crossterm_io.rs).                                                      *)
(*                                                                         *)
(* The emulator is one record-valued variable whose fields are the fields  *)
(* of the struct.  Every instruction arm of execute_single is an operator  *)
(* from a machine record to a machine record.  A Rust panic is recorded in *)
(* the field `fault`; a panicked emulator takes no further step.           *)
(***************************************************************************)
EXTENDS Integers, Naturals, Sequences, FiniteSets, TLC

VARIABLES
    emulator,        \* the Emulator struct (fields as in the source) plus `fault`
    overflow_checks, \* TRUE: integer overflow panics (debug build); FALSE: it wraps (release build)
    last,            \* history: the operation that produced this state
    pre,             \* history: the emulator record before that operation
    last2,           \* history: the operation before `last`
    pre2,            \* history: the emulator record before `last2`
    calls,           \* history: the Calls not yet returned from, innermost last
    steps,           \* history: number of operations performed so far
    km,              \* the KeyManager of the crossterm frontend, its two threads, the clock
    kb,              \* a KeyBuffer, its producer and consumer threads, the clock
    keypad,          \* the key codes handed to the keypad mapping and what it made of them
    splitter         \* a BitSplitter, the bit range asked of it and what get returned

vars == <<emulator, overflow_checks, last, pre, last2, pre2, calls, steps, km, kb, keypad,
          splitter>>

\* The library used without a frontend (Emulator::dummy)
NoFrontend == "none"

\* No BitSplitter under test
NoSplitter == "none"

(***************************************************************************)
(* Program constants.                                                      *)
(***************************************************************************)
MEM_SIZE == 4096
NUM_REGISTERS == 16
STACK_SIZE == 256
PC_START == 512
FONT ==
    << 240, 144, 144, 144, 240,
        32,  96,  32,  32, 112,
       240,  16, 240, 128, 240,
       240,  16, 240,  16, 240,
       144, 144, 240,  16,  16,
       240, 128, 240,  16, 240,
       240, 128, 240, 144, 240,
       240,  16,  32,  64,  64,
       240, 144, 240, 144, 240,
       240, 144, 240,  16, 240,
       240, 144, 240, 144, 144,
       224, 144, 224, 144, 224,
       240, 128, 128, 128, 240,
       224, 144, 144, 144, 224,
       240, 128, 240, 128, 240,
       240, 128, 240, 128, 128 >>

U8 == 256
U16 == 65536
VF == 15

(***************************************************************************)
(* Bit arithmetic on machine integers.                                     *)
(***************************************************************************)
Min(a, b) == IF a < b THEN a ELSE b

Bit(v, k) == (v \div (2 ^ k)) % 2

\* a ^ b on u8
Xor8(a, b) ==
    LET s[k \in 0..8] ==
            IF k = 8 THEN 0
            ELSE ((Bit(a, k) + Bit(b, k)) % 2) * (2 ^ k) + s[k + 1]
    IN s[0]

\* a & b on u8
And8(a, b) ==
    LET s[k \in 0..8] ==
            IF k = 8 THEN 0
            ELSE (Bit(a, k) * Bit(b, k)) * (2 ^ k) + s[k + 1]
    IN s[0]

\* a | b on u8
Or8(a, b) ==
    LET s[k \in 0..8] ==
            IF k = 8 THEN 0
            ELSE (IF Bit(a, k) + Bit(b, k) > 0 THEN 1 ELSE 0) * (2 ^ k) + s[k + 1]
    IN s[0]

\* a & b on u16
And16(a, b) ==
    LET s[k \in 0..16] ==
            IF k = 16 THEN 0
            ELSE (Bit(a, k) * Bit(b, k)) * (2 ^ k) + s[k + 1]
    IN s[0]

\* a | b on u16
Or16(a, b) ==
    LET s[k \in 0..16] ==
            IF k = 16 THEN 0
            ELSE (IF Bit(a, k) + Bit(b, k) > 0 THEN 1 ELSE 0) * (2 ^ k) + s[k + 1]
    IN s[0]

\* v << k on u16, for k < 16: the bits shifted out at the top are lost
Shl16(v, k) == (v * (2 ^ k)) % U16

\* v >> k, for k below the width of v
Shr(v, k) == v \div (2 ^ k)

(***************************************************************************)
(* BitSplitter (src/bit_splitter.rs): BitSplitter(left, right).            *)
(***************************************************************************)
\* Mutant: the first component not shifted to the high byte
as_u16_NoShift(left, right) == Or16(left, right)

\* ((self.0 as u16) << 8) | self.1 as u16
as_u16(left, right) == Or16(Shl16(left, 8), right)

\* ((self.0 >> 4) & 0x0F, (self.0 >> 0) & 0x0F, (self.1 >> 4) & 0x0F, (self.1 >> 0) & 0x0F)
as_four_u8(left, right) ==
    << And8(Shr(left, 4), 15), And8(Shr(left, 0), 15),
       And8(Shr(right, 4), 15), And8(Shr(right, 0), 15) >>

\* self.1
last_8_bits(left, right) == right

\* Mutant: the address taken without the mask 0x0FFF
last_12_bits_NoMask(left, right) == as_u16(left, right)

\* self.as_u16() & 0x0FFF
last_12_bits(left, right) == And16(as_u16(left, right), 4095)

\* The width of a u16: a shift of a u16 by this many bits or more overflows
WordBits == 16

\* What a call of get comes to: the Option<u16> it returns, or a panic
GetNone == [kind |-> "None", val |-> 0]

GetSome(v) == [kind |-> "Some", val |-> v]

GetPanic == [kind |-> "Panic", val |-> 0]

\* v >> k on a u16 in the build without overflow checks: the shift amount is
\* taken modulo the width
WrappingShr16(v, k) == Shr(v, k % WordBits)

\* if end > 16 { return None }; value &= 0xFFFF >> start; value >>= 16 - end.
\* Each shift is by a usize amount: 16 or more panics with overflow checks
\* ("attempt to shift right with overflow") and wraps without them.
get(left, right, start, end) ==
    IF end > 16 THEN GetNone
    ELSE IF overflow_checks /\ (start >= WordBits \/ 16 - end >= WordBits)
         THEN GetPanic
         ELSE LET mask == WrappingShr16(65535, start)
                  value == And16(as_u16(left, right), mask)
              IN  GetSome(WrappingShr16(value, 16 - end))

(***************************************************************************)
(* Instruction (src/emulator/instruction.rs).  An instruction is a record: *)
(* its variant `op` and its operands; an operand the variant does not      *)
(* carry is 0.  from_two_u8 of an unknown opcode panics: op = "Unknown".   *)
(***************************************************************************)
Ins(op, x, y, n, addr) == [op |-> op, x |-> x, y |-> y, n |-> n, addr |-> addr]

InsNone == Ins("None", 0, 0, 0, 0)

\* One arm of the match of from_two_u8: the nibble tuple it matches (-1 where the
\* pattern is _ or binds a variable), the variant it builds and the operands the
\* variant carries: "none", "nnn" (Addr of last_12_bits), "xnn" (Reg, Const of
\* last_8_bits), "xy" (Reg, Reg), "x" (Reg), "xyn" (Reg, Reg, Const of the last nibble).
Arm(a, x, y, n, op, operands) == [nib |-> <<a, x, y, n>>, op |-> op, operands |-> operands]

\* The arms of the match, in the order of the source
Patterns ==
    <<
       Arm( 0,  0, 14,  0, "ClearScreen",         "none"),
       Arm( 0,  0, 14, 14, "Return",              "none"),
       Arm( 1, -1, -1, -1, "Goto",                "nnn"),
       Arm( 2, -1, -1, -1, "Call",                "nnn"),
       Arm( 3, -1, -1, -1, "IfRegEqConst",        "xnn"),
       Arm( 4, -1, -1, -1, "IfRegNeqConst",       "xnn"),
       Arm( 5, -1, -1,  0, "IfRegEqReg",          "xy"),
       Arm( 6, -1, -1, -1, "SetRegToConst",       "xnn"),
       Arm( 7, -1, -1, -1, "IncRegByConst",       "xnn"),
       Arm( 8, -1, -1,  0, "SetRegToReg",         "xy"),
       Arm( 8, -1, -1,  1, "BitwiseOr",           "xy"),
       Arm( 8, -1, -1,  2, "BitwiseAnd",          "xy"),
       Arm( 8, -1, -1,  3, "BitwiseXor",          "xy"),
       Arm( 8, -1, -1,  4, "IncRegByReg",         "xy"),
       Arm( 8, -1, -1,  5, "DecRegByReg",         "xy"),
       Arm( 8, -1, -1,  6, "BitshiftRight",       "x"),
       Arm( 8, -1, -1,  7, "SetVxVyMinusVx",      "xy"),
       Arm( 8, -1, -1, 14, "BitshiftLeft",        "x"),
       Arm( 9, -1, -1,  0, "IfRegNeqReg",         "xy"),
       Arm(10, -1, -1, -1, "SetI",                "nnn"),
       Arm(11, -1, -1, -1, "SetPcToV0PlusAddr",   "nnn"),
       Arm(12, -1, -1, -1, "SetVxRand",           "xnn"),
       Arm(13, -1, -1, -1, "Draw",                "xyn"),
       Arm(14, -1,  9, 14, "IfKeyEqVx",           "x"),
       Arm(14, -1, 10,  1, "IfKeyNeqVx",          "x"),
       Arm(15, -1,  0,  7, "SetRegToDelayTimer",  "x"),
       Arm(15, -1,  0, 10, "SetRegToGetKey",      "x"),
       Arm(15, -1,  1,  5, "SetDelayTimerToReg",  "x"),
       Arm(15, -1,  1,  8, "SetSoundTimerToReg",  "x"),
       Arm(15, -1,  1, 14, "AddRegToI",           "x"),
       Arm(15, -1,  2,  9, "SetIToSpriteAddrVx",  "x"),
       Arm(15, -1,  3,  3, "SetIToBcdOfReg",      "x"),
       Arm(15, -1,  5,  5, "RegDump",             "x"),
       Arm(15, -1,  6,  5, "RegLoad",             "x")
    >>

\* The pattern of arm p matches the nibble tuple f
Matches(p, f) == \A k \in 1..4 : p.nib[k] = -1 \/ p.nib[k] = f[k]

\* The arms whose pattern matches the opcode
Hits(left, right) ==
    LET opcode == as_four_u8(left, right)
    IN  {k \in DOMAIN Patterns : Matches(Patterns[k], opcode)}

\* The instruction arm p builds from the opcode
Build(p, left, right) ==
    LET f == as_four_u8(left, right)
    IN  CASE p.operands = "none" -> Ins(p.op, 0, 0, 0, 0)
          [] p.operands = "nnn"  -> Ins(p.op, 0, 0, 0, last_12_bits(left, right))
          [] p.operands = "xnn"  -> Ins(p.op, f[2], 0, last_8_bits(left, right), 0)
          [] p.operands = "xy"   -> Ins(p.op, f[2], f[3], 0, 0)
          [] p.operands = "x"    -> Ins(p.op, f[2], 0, 0, 0)
          [] p.operands = "xyn"  -> Ins(p.op, f[2], f[3], f[4], 0)

\* match opcode.as_four_u8() { ... }: the first arm that matches; the default arm panics
from_two_u8(left, right) ==
    LET hits == Hits(left, right)
    IN  IF hits = {}
        THEN Ins("Unknown", 0, 0, 0, 0)
        ELSE Build(Patterns[CHOOSE k \in hits : \A m \in hits : k <= m], left, right)

(***************************************************************************)
(* EmulatorInput / the random source: what the environment answers during  *)
(* one instruction.  key is the Option<u8> of get_key, blocking_key the u8 *)
(* of get_key_blocking, rand the byte of rand::random::<u8>().             *)
(***************************************************************************)
KeyNone == [some |-> FALSE, val |-> 0]
KeySome(k) == [some |-> TRUE, val |-> k]

Env(key, blocking_key, rand) == [key |-> key, blocking_key |-> blocking_key, rand |-> rand]

\* DummyInput: get_key is None, get_key_blocking is 0
DummyEnv == Env(KeyNone, 0, 0)

(***************************************************************************)
(* DummyOutput (src/emulator/output.rs): a HashMap from (x, y) to u8,      *)
(* modelled as a function whose domain is the set of inserted keys.        *)
(***************************************************************************)
DummyOutput_new == [c \in {} |-> 0]

output_set(screen, x, y, state) == (<<x, y>> :> state) @@ screen

output_get(screen, x, y) ==
    IF <<x, y>> \in DOMAIN screen THEN screen[<<x, y>>] ELSE 0

output_clear(screen) == [c \in {} |-> 0]

(***************************************************************************)
(* Emulator (src/emulator/emulator.rs).                                    *)
(*                                                                         *)
(* The arrays memory: [u8; MEM_SIZE] and stack: [u16; STACK_SIZE] start    *)
(* zeroed.  Each is held as the finite map of its nonzero cells: a cell of *)
(* 0..size-1 outside the map holds 0, and a write of 0 removes the cell,   *)
(* so two maps are equal exactly when the arrays are.  The index checks    *)
(* against MEM_SIZE and STACK_SIZE are made where the source indexes.      *)
(***************************************************************************)
ArrayGet(arr, idx) == IF idx \in DOMAIN arr THEN arr[idx] ELSE 0

ArraySet(arr, idx, v) ==
    [k \in IF v = 0 THEN (DOMAIN arr) \ {idx} ELSE (DOMAIN arr) \cup {idx} |->
        IF k = idx THEN v ELSE arr[k]]

\* Mutant: the constructor of the earlier snapshot (src/emulator.rs), no font loaded
Emulator_new_NoFont ==
    [ memory          |-> [a \in {} |-> 0],
      registers       |-> [r \in 0..(NUM_REGISTERS - 1) |-> 0],
      delay_timer     |-> 0,
      sound_timer     |-> 0,
      i               |-> 0,
      program_counter |-> PC_START,
      stack_pointer   |-> 0,
      stack           |-> [s \in {} |-> 0],
      output          |-> DummyOutput_new,
      fault           |-> "none" ]

\* Emulator::new: the font at 0..79, all else zero, PC at PC_START
Emulator_new ==
    [ memory          |-> [a \in {k \in 0..(Len(FONT) - 1) : FONT[k + 1] # 0} |-> FONT[a + 1]],
      registers       |-> [r \in 0..(NUM_REGISTERS - 1) |-> 0],
      delay_timer     |-> 0,
      sound_timer     |-> 0,
      i               |-> 0,
      program_counter |-> PC_START,
      stack_pointer   |-> 0,
      stack           |-> [s \in {} |-> 0],
      output          |-> DummyOutput_new,
      fault           |-> "none" ]

Panic(st, why) == [st EXCEPT !.fault = why]

Ok(st) == st.fault = "none"

\* self.program_counter += 2 on a u16
AdvancePc(st) ==
    IF st.program_counter + 2 >= U16
    THEN IF overflow_checks
         THEN Panic(st, "attempt to add with overflow")
         ELSE [st EXCEPT !.program_counter = (st.program_counter + 2) % U16]
    ELSE [st EXCEPT !.program_counter = st.program_counter + 2]

\* Mutant: the skip taken whatever the condition
SkipIf_Always(st, cond) == AdvancePc(st)

\* if cond { self.program_counter += 2 }
SkipIf(st, cond) == IF cond THEN AdvancePc(st) ELSE st

Reg(st, x) == st.registers[x]

SetReg(st, x, v) == [st EXCEPT !.registers[x] = v]

\* Mutant: the screen left as it is
ClearScreen_NoClear(st) == st

\* self.output.clear()
ClearScreen(st) == [st EXCEPT !.output = output_clear(st.output)]

\* self.stack_pointer -= 1 on a u8, then the jump back via the stack
\* Mutant: the return to the Call itself, not to the instruction after it
Return_ToCall(st) ==
    IF st.stack_pointer = 0
    THEN Panic(st, "attempt to subtract with overflow")
    ELSE [st EXCEPT !.stack_pointer = st.stack_pointer - 1,
                    !.program_counter = ArrayGet(st.stack, st.stack_pointer - 1) - 2]

\* self.stack_pointer -= 1 on a u8, then the jump to the stored address
Return(st) ==
    IF st.stack_pointer = 0
    THEN IF overflow_checks
         THEN Panic(st, "attempt to subtract with overflow")
         ELSE [st EXCEPT !.stack_pointer = U8 - 1,
                         !.program_counter = ArrayGet(st.stack, U8 - 1)]
    ELSE [st EXCEPT !.stack_pointer = st.stack_pointer - 1,
                    !.program_counter = ArrayGet(st.stack, st.stack_pointer - 1)]

Goto(st, addr) == [st EXCEPT !.program_counter = addr]

\* Mutant: the return address kept in memory, at the stack pointer, low byte only
Call_StackInMemory(st, addr) ==
    [st EXCEPT !.memory = ArraySet(st.memory, st.stack_pointer, st.program_counter % U8),
               !.stack_pointer = (st.stack_pointer + 1) % U8,
               !.program_counter = addr]

\* the store of the current address, self.stack_pointer += 1 on a u8, the jump
Call(st, addr) ==
    LET pushed == [st EXCEPT !.stack = ArraySet(st.stack, st.stack_pointer, st.program_counter)]
    IN  IF st.stack_pointer + 1 >= U8
        THEN IF overflow_checks
             THEN Panic(pushed, "attempt to add with overflow")
             ELSE [pushed EXCEPT !.stack_pointer = (st.stack_pointer + 1) % U8,
                                 !.program_counter = addr]
        ELSE [pushed EXCEPT !.stack_pointer = st.stack_pointer + 1,
                            !.program_counter = addr]

IfRegEqConst(st, x, n) == SkipIf(st, Reg(st, x) = n)

IfRegNeqConst(st, x, n) == SkipIf(st, Reg(st, x) # n)

IfRegEqReg(st, x, y) == SkipIf(st, Reg(st, x) = Reg(st, y))

SetRegToConst(st, x, n) == SetReg(st, x, n)

\* Mutant: the carry of the sum reported in VF
IncRegByConst_Carry(st, x, n) ==
    SetReg(SetReg(st, x, (Reg(st, x) + n) % U8), VF,
           IF Reg(st, x) + n >= U8 THEN 1 ELSE 0)

\* overflowing_add(n).0
IncRegByConst(st, x, n) == SetReg(st, x, (Reg(st, x) + n) % U8)

SetRegToReg(st, x, y) == SetReg(st, x, Reg(st, y))

BitwiseOr(st, x, y) == SetReg(st, x, Or8(Reg(st, x), Reg(st, y)))

BitwiseAnd(st, x, y) == SetReg(st, x, And8(Reg(st, x), Reg(st, y)))

BitwiseXor(st, x, y) == SetReg(st, x, Xor8(Reg(st, x), Reg(st, y)))

\* Mutant: the wrapped sum without the carry flag
IncRegByReg_NoFlag(st, x, y) ==
    SetReg(st, x, (Reg(st, x) + Reg(st, y)) % U8)

\* overflowing_add: the wrapped sum and whether it overflowed; Vx, then VF
IncRegByReg(st, x, y) ==
    LET x_value == Reg(st, x)
        y_value == Reg(st, y)
        sum == (x_value + y_value) % U8
        overflow == x_value + y_value >= U8
    IN  SetReg(SetReg(st, x, sum), VF, IF overflow THEN 1 ELSE 0)

\* Mutant: VF set to 1 on a borrow instead of 0
DecRegByReg_FlagInverted(st, x, y) ==
    LET x_value == Reg(st, x)
        y_value == Reg(st, y)
    IN  SetReg(SetReg(st, x, (x_value - y_value + U8) % U8),
               VF, IF x_value < y_value THEN 1 ELSE 0)

\* overflowing_sub: the wrapped difference and whether it borrowed; Vx, then VF
DecRegByReg(st, x, y) ==
    LET x_value == Reg(st, x)
        y_value == Reg(st, y)
        sum == (x_value - y_value + U8) % U8
        overflow == x_value < y_value
    IN  SetReg(SetReg(st, x, sum), VF, IF overflow THEN 0 ELSE 1)

\* VF = value & 1, then registers[x] >>= 1 (reads the register again)
BitshiftRight(st, x) ==
    LET value == Reg(st, x)
        flagged == SetReg(st, VF, value % 2)
    IN  SetReg(flagged, x, Reg(flagged, x) \div 2)

\* Mutant: the operands in the order of DecRegByReg (Vx - Vy)
SetVxVyMinusVx_Swapped(st, x, y) ==
    LET x_value == Reg(st, x)
        y_value == Reg(st, y)
    IN  SetReg(SetReg(st, x, (x_value - y_value + U8) % U8),
               VF, IF x_value < y_value THEN 0 ELSE 1)

\* let (sum, borrow) = y_value.overflowing_sub(x_value); Vx, then VF
SetVxVyMinusVx(st, x, y) ==
    LET x_value == Reg(st, x)
        y_value == Reg(st, y)
        sum == (y_value - x_value + U8) % U8
        borrow == y_value < x_value
    IN  SetReg(SetReg(st, x, sum), VF, IF borrow THEN 0 ELSE 1)

\* Mutant: the flag taken from the value after the shift
BitshiftLeft_FlagAfterShift(st, x) ==
    LET shifted == SetReg(st, x, (Reg(st, x) * 2) % U8)
    IN  SetReg(shifted, VF, (Reg(shifted, x) \div 128) % 2)

\* VF = (value & 0b10000000) >> 7, then registers[x] <<= 1 (reads the register again)
BitshiftLeft(st, x) ==
    LET value == Reg(st, x)
        flagged == SetReg(st, VF, (value \div 128) % 2)
    IN  SetReg(flagged, x, (Reg(flagged, x) * 2) % U8)

IfRegNeqReg(st, x, y) == SkipIf(st, Reg(st, x) # Reg(st, y))

SetI(st, addr) == [st EXCEPT !.i = addr]

SetPcToV0PlusAddr(st, addr) == [st EXCEPT !.program_counter = Reg(st, 0) + addr]

\* Mutant: the random byte stored without the mask
SetVxRand_NoMask(st, x, n, env) == SetReg(st, x, env.rand)

\* rand::random::<u8>() & n
SetVxRand(st, x, n, env) == SetReg(st, x, And8(env.rand, n))

\* Mutant: the shift of the earliest snapshot, row >> (8 - w)
SpritePixel_ShiftBy8(row, w) == Bit(row, 8 - w)

\* let new_pixel = row >> (7 - w) & 1
SpritePixel(row, w) == Bit(row, 7 - w)

\* Mutant: the sprite laid over the screen with | instead of ^
Blend_Or(old_pixel, new_pixel) == Or8(old_pixel, new_pixel)

\* let xored_pixel = old_pixel ^ new_pixel
Blend(old_pixel, new_pixel) == Xor8(old_pixel, new_pixel)

\* Mutant: a collision for every written cell that was set, whatever it became
IsCollision_AnySetCell(old_pixel, xored_pixel) == old_pixel = 1

\* if old_pixel == 1 && xored_pixel == 0
IsCollision(old_pixel, xored_pixel) == old_pixel = 1 /\ xored_pixel = 0

\* for w in 0..8 { ... }: columns w..7 of sprite row `row`, laid on screen row
\* y_coord + h; output and any_collisions are the screen and the flag so far.
RECURSIVE DrawRow(_, _, _, _, _, _, _)
DrawRow(row, x_coord, y_coord, h, w, output, any_collisions) ==
    IF w = 8 THEN [output |-> output, any_collisions |-> any_collisions]
    ELSE LET new_pixel == SpritePixel(row, w)
             old_pixel == output_get(output, x_coord + w, y_coord + h)
             xored_pixel == Blend(old_pixel, new_pixel)
         IN  IF IsCollision(old_pixel, xored_pixel)
             THEN DrawRow(row, x_coord, y_coord, h, w + 1,
                          output_set(output, x_coord + w, y_coord + h, xored_pixel), 1)
             ELSE DrawRow(row, x_coord, y_coord, h, w + 1,
                          output_set(output, x_coord + w, y_coord + h, xored_pixel),
                          any_collisions)

\* for (h, row) in sprite_data.iter().enumerate() { ... }: rows 0..count-1
RECURSIVE DrawLoop(_, _, _, _, _, _)
DrawLoop(mem, sprite_addr, x_coord, y_coord, count, acc) ==
    IF count = 0 THEN acc
    ELSE LET done == DrawLoop(mem, sprite_addr, x_coord, y_coord, count - 1, acc)
             h == count - 1
         IN  DrawRow(ArrayGet(mem, sprite_addr + h), x_coord, y_coord, h, 0,
                     done.output, done.any_collisions)

\* Mutant: a sprite of no rows leaves VF as it was
Draw_EmptyKeepsFlag(st, x, y, sprite_height) ==
    LET x_coord == Reg(st, x)
        y_coord == Reg(st, y)
        sprite_addr == st.i
    IN  IF sprite_addr + sprite_height > MEM_SIZE
        THEN Panic(st, "range end index out of range for slice")
        ELSE IF sprite_height = 0 THEN st
        ELSE LET r == DrawLoop(st.memory, sprite_addr, x_coord, y_coord,
                               sprite_height,
                               [output |-> st.output, any_collisions |-> 0])
             IN  SetReg([st EXCEPT !.output = r.output], VF, r.any_collisions)

\* sprite_data = &memory[sprite_addr..sprite_addr + sprite_height] panics when its end
\* is beyond the array, for an empty range as well
Draw(st, x, y, sprite_height) ==
    LET x_coord == Reg(st, x)
        y_coord == Reg(st, y)
        sprite_addr == st.i
    IN  IF sprite_addr + sprite_height > MEM_SIZE
        THEN Panic(st, "range end index out of range for slice")
        ELSE LET r == DrawLoop(st.memory, sprite_addr, x_coord, y_coord,
                               sprite_height,
                               [output |-> st.output, any_collisions |-> 0])
             IN  SetReg([st EXCEPT !.output = r.output], VF, r.any_collisions)

IfKeyEqVx(st, x, env) == SkipIf(st, env.key = KeySome(Reg(st, x)))

\* Mutant: no skip while no key is held
IfKeyNeqVx_NoKeyNoSkip(st, x, env) ==
    SkipIf(st, env.key.some /\ env.key.val # Reg(st, x))

IfKeyNeqVx(st, x, env) == SkipIf(st, env.key # KeySome(Reg(st, x)))

SetRegToDelayTimer(st, x) == SetReg(st, x, st.delay_timer)

\* Mutant: the key taken from the non-blocking query
SetRegToGetKey_NonBlocking(st, x, env) ==
    SetReg(st, x, IF env.key.some THEN env.key.val ELSE 0)

SetRegToGetKey(st, x, env) == SetReg(st, x, env.blocking_key)

SetDelayTimerToReg(st, x) == [st EXCEPT !.delay_timer = Reg(st, x)]

SetSoundTimerToReg(st, x) == [st EXCEPT !.sound_timer = Reg(st, x)]

\* self.i += Vx on a u16
AddRegToI(st, x) ==
    IF st.i + Reg(st, x) >= U16
    THEN IF overflow_checks
         THEN Panic(st, "attempt to add with overflow")
         ELSE [st EXCEPT !.i = (st.i + Reg(st, x)) % U16]
    ELSE [st EXCEPT !.i = st.i + Reg(st, x)]

\* Mutant: the arm of the earlier snapshot (src/emulator.rs), I set to an empty area
SetIToSpriteAddrVx_Unimplemented(st, x) == [st EXCEPT !.i = 0]

\* self.i = 5 * Vx as u16
SetIToSpriteAddrVx(st, x) == [st EXCEPT !.i = 5 * Reg(st, x)]

\* Mutant: the digits stored lowest first, ones at I
SetIToBcdOfReg_OnesFirst(st, x) ==
    LET ones == Reg(st, x)
        tens == ones \div 10
        hundredths == tens \div 10
    IN  IF st.i + 2 >= MEM_SIZE
        THEN Panic(st, "index out of bounds")
        ELSE [st EXCEPT !.memory =
                 ArraySet(ArraySet(ArraySet(st.memory, st.i, ones % 10),
                                   st.i + 1, tens % 10),
                          st.i + 2, hundredths % 10)]

\* memory[i + 2] is written first: the index check of the highest address comes first
SetIToBcdOfReg(st, x) ==
    LET ones == Reg(st, x)
        tens == ones \div 10
        hundredths == tens \div 10
    IN  IF st.i + 2 >= MEM_SIZE
        THEN Panic(st, "index out of bounds")
        ELSE [st EXCEPT !.memory =
                 ArraySet(ArraySet(ArraySet(st.memory, st.i + 2, ones % 10),
                                   st.i + 1, tens % 10),
                          st.i, hundredths % 10)]

\* for reg_no in 0..=x: the writes before the first index out of bounds are made
RECURSIVE RegDumpLoop(_, _, _)
RegDumpLoop(st, x, reg_no) ==
    IF reg_no > x THEN st
    ELSE IF st.i + reg_no >= MEM_SIZE
         THEN Panic(st, "index out of bounds")
         ELSE RegDumpLoop([st EXCEPT !.memory =
                              ArraySet(st.memory, st.i + reg_no, st.registers[reg_no])],
                          x, reg_no + 1)

\* Mutant: the dump of V0 up to but not including Vx
RegDump_BelowX(st, x) == IF x = 0 THEN st ELSE RegDumpLoop(st, x - 1, 0)

RegDump(st, x) == RegDumpLoop(st, x, 0)

RECURSIVE RegLoadLoop(_, _, _)
RegLoadLoop(st, x, reg_no) ==
    IF reg_no > x THEN st
    ELSE IF st.i + reg_no >= MEM_SIZE
         THEN Panic(st, "index out of bounds")
         ELSE RegLoadLoop([st EXCEPT !.registers[reg_no] =
                              ArrayGet(st.memory, st.i + reg_no)],
                          x, reg_no + 1)

RegLoad(st, x) == RegLoadLoop(st, x, 0)

\* Mutant: the timers lowered without the test for 0, wrapping on a u8
UpdateTimers_Wrapping(st) ==
    [st EXCEPT !.delay_timer = (@ + U8 - 1) % U8,
               !.sound_timer = (@ + U8 - 1) % U8]

\* The timer update at the head of execute_single
UpdateTimers(st) ==
    [st EXCEPT !.delay_timer = IF @ > 0 THEN @ - 1 ELSE @,
               !.sound_timer = IF @ > 0 THEN @ - 1 ELSE @]

\* match instruction { ... }
Dispatch(st, ins, env) ==
    CASE ins.op = "ClearScreen"        -> ClearScreen(st)
      [] ins.op = "Return"             -> Return(st)
      [] ins.op = "Goto"               -> Goto(st, ins.addr)
      [] ins.op = "Call"               -> Call(st, ins.addr)
      [] ins.op = "IfRegEqConst"       -> IfRegEqConst(st, ins.x, ins.n)
      [] ins.op = "IfRegNeqConst"      -> IfRegNeqConst(st, ins.x, ins.n)
      [] ins.op = "IfRegEqReg"         -> IfRegEqReg(st, ins.x, ins.y)
      [] ins.op = "SetRegToConst"      -> SetRegToConst(st, ins.x, ins.n)
      [] ins.op = "IncRegByConst"      -> IncRegByConst(st, ins.x, ins.n)
      [] ins.op = "SetRegToReg"        -> SetRegToReg(st, ins.x, ins.y)
      [] ins.op = "BitwiseOr"          -> BitwiseOr(st, ins.x, ins.y)
      [] ins.op = "BitwiseAnd"         -> BitwiseAnd(st, ins.x, ins.y)
      [] ins.op = "BitwiseXor"         -> BitwiseXor(st, ins.x, ins.y)
      [] ins.op = "IncRegByReg"        -> IncRegByReg(st, ins.x, ins.y)
      [] ins.op = "DecRegByReg"        -> DecRegByReg(st, ins.x, ins.y)
      [] ins.op = "BitshiftRight"      -> BitshiftRight(st, ins.x)
      [] ins.op = "SetVxVyMinusVx"     -> SetVxVyMinusVx(st, ins.x, ins.y)
      [] ins.op = "BitshiftLeft"       -> BitshiftLeft(st, ins.x)
      [] ins.op = "IfRegNeqReg"        -> IfRegNeqReg(st, ins.x, ins.y)
      [] ins.op = "SetI"               -> SetI(st, ins.addr)
      [] ins.op = "SetPcToV0PlusAddr"  -> SetPcToV0PlusAddr(st, ins.addr)
      [] ins.op = "SetVxRand"          -> SetVxRand(st, ins.x, ins.n, env)
      [] ins.op = "Draw"               -> Draw(st, ins.x, ins.y, ins.n)
      [] ins.op = "IfKeyEqVx"          -> IfKeyEqVx(st, ins.x, env)
      [] ins.op = "IfKeyNeqVx"         -> IfKeyNeqVx(st, ins.x, env)
      [] ins.op = "SetRegToDelayTimer" -> SetRegToDelayTimer(st, ins.x)
      [] ins.op = "SetRegToGetKey"     -> SetRegToGetKey(st, ins.x, env)
      [] ins.op = "SetDelayTimerToReg" -> SetDelayTimerToReg(st, ins.x)
      [] ins.op = "SetSoundTimerToReg" -> SetSoundTimerToReg(st, ins.x)
      [] ins.op = "AddRegToI"          -> AddRegToI(st, ins.x)
      [] ins.op = "SetIToSpriteAddrVx" -> SetIToSpriteAddrVx(st, ins.x)
      [] ins.op = "SetIToBcdOfReg"     -> SetIToBcdOfReg(st, ins.x)
      [] ins.op = "RegDump"            -> RegDump(st, ins.x)
      [] ins.op = "RegLoad"            -> RegLoad(st, ins.x)

\* Mutant: the timers lowered after the instruction's arm, not before it
execute_single_TimersLast(st, ins, env) ==
    LET advanced == AdvancePc(st)
    IN  IF Ok(advanced) THEN UpdateTimers(Dispatch(advanced, ins, env)) ELSE advanced

\* Timers, the advance of the program counter, then the instruction's arm
execute_single(st, ins, env) ==
    LET advanced == AdvancePc(UpdateTimers(st))
    IN  IF Ok(advanced) THEN Dispatch(advanced, ins, env) ELSE advanced

\* for instruction in instructions { self.execute_single(*instruction) }:
\* a panic ends the run
RECURSIVE execute_many(_, _, _)
execute_many(st, instructions, env) ==
    IF instructions = <<>> \/ ~Ok(st) THEN st
    ELSE execute_many(execute_single(st, Head(instructions), env), Tail(instructions), env)

\* Mutant: an unknown opcode passed over as an instruction without effect
step_UnknownSkipped(st, env) ==
    IF st.program_counter >= MEM_SIZE \/ st.program_counter + 1 >= MEM_SIZE
    THEN Panic(st, "index out of bounds")
    ELSE LET left == ArrayGet(st.memory, st.program_counter)
             right == ArrayGet(st.memory, st.program_counter + 1)
             instruction == from_two_u8(left, right)
         IN  IF instruction.op = "Unknown"
             THEN AdvancePc(UpdateTimers(st))
             ELSE execute_single(st, instruction, env)

\* Mutant: the fetch wrapped around to the start of memory
step_FetchWraps(st, env) ==
    LET left == ArrayGet(st.memory, st.program_counter % MEM_SIZE)
        right == ArrayGet(st.memory, (st.program_counter + 1) % MEM_SIZE)
        instruction == from_two_u8(left, right)
    IN  IF instruction.op = "Unknown"
        THEN Panic(st, "Unknown opcode!")
        ELSE execute_single(st, instruction, env)

\* The fetch of two bytes at the program counter, the decoding, execute_single
step(st, env) ==
    IF st.program_counter >= MEM_SIZE \/ st.program_counter + 1 >= MEM_SIZE
    THEN Panic(st, "index out of bounds")
    ELSE LET left == ArrayGet(st.memory, st.program_counter)
             right == ArrayGet(st.memory, st.program_counter + 1)
             instruction == from_two_u8(left, right)
         IN  IF instruction.op = "Unknown"
             THEN Panic(st, "Unknown opcode!")
             ELSE execute_single(st, instruction, env)

\* The instruction step fetches in state st (InsNone when the fetch or decoding panics)
Fetched(st) ==
    IF st.program_counter + 1 >= MEM_SIZE THEN InsNone
    ELSE from_two_u8(ArrayGet(st.memory, st.program_counter),
                     ArrayGet(st.memory, st.program_counter + 1))

\* memory[start..start + len].copy_from_slice(program), the lengths being equal
CopyFromSlice(mem, start, len, program) ==
    LET byte(a) == IF a >= start /\ a < start + len
                   THEN program[a - start + 1] ELSE ArrayGet(mem, a)
        touched == (DOMAIN mem) \cup (start..(start + len - 1))
    IN  [a \in {k \in touched : byte(k) # 0} |-> byte(a)]

\* len = min(program.len(), memory.len() - pc); memory[pc..pc + len].copy_from_slice(program)
\* memory.len() - pc is a usize subtraction; copy_from_slice panics unless the lengths agree.
load(st, program) ==
    LET pc == st.program_counter
    IN  IF pc > MEM_SIZE
        THEN IF overflow_checks
             THEN Panic(st, "attempt to subtract with overflow")
             ELSE Panic(st, "range start index out of range for slice")
        ELSE LET len == Min(Len(program), MEM_SIZE - pc)
             IN  IF Len(program) # len
                 THEN Panic(st, "source slice length does not match destination slice length")
                 ELSE [st EXCEPT !.memory = CopyFromSlice(st.memory, pc, len, program)]

(***************************************************************************)
(* The operations of the driver as actions.  Each performs one whole call  *)
(* on the emulator and records it in the history variables.                *)
(***************************************************************************)
\* matched: for a Return, the outstanding Call it returns from (some = FALSE if none):
\* the address the Call was fetched at, the stack pointer it found, and the number of
\* instructions that are neither Call nor Return executed since it.
NoCall == [some |-> FALSE, at |-> 0, sp |-> 0, others |-> 0]

Op(kind, ins, env, program) ==
    [kind |-> kind, ins |-> ins, env |-> env, program |-> program, instructions |-> <<>>,
     matched |-> IF ins.op = "Return" /\ Len(calls) > 0
                 THEN [some |-> TRUE, at |-> calls[Len(calls)].at, sp |-> calls[Len(calls)].sp,
                       others |-> calls[Len(calls)].others]
                 ELSE NoCall]

OpNew ==
    [kind |-> "new", ins |-> InsNone, env |-> DummyEnv, program |-> <<>>,
     instructions |-> <<>>, matched |-> NoCall]

\* The outstanding Calls after instruction ins ran from state st without a panic:
\* a Call adds the address it was fetched at and the stack pointer it found,
\* a Return removes the innermost.
CallsAfter(st, ins, next) ==
    IF ~Ok(next) THEN calls
    ELSE IF ins.op = "Call"
         THEN Append(calls, [at |-> st.program_counter, sp |-> st.stack_pointer,
                             others |-> 0])
    ELSE IF ins.op = "Return"
         THEN SubSeq(calls, 1, Len(calls) - 1)
    ELSE [k \in DOMAIN calls |-> [calls[k] EXCEPT !.others = @ + 1]]

Record(next, op) ==
    /\ emulator' = next
    /\ pre' = emulator
    /\ last' = op
    /\ pre2' = pre
    /\ last2' = last
    /\ calls' = CallsAfter(emulator, op.ins, next)
    /\ steps' = steps + 1
    /\ UNCHANGED <<overflow_checks, km, kb, keypad, splitter>>

\* emulator.execute_single(ins)
ExecuteSingle(ins, env) ==
    /\ Ok(emulator)
    /\ Record(execute_single(emulator, ins, env), Op("execute_single", ins, env, <<>>))

\* emulator.step()
Step(env) ==
    /\ Ok(emulator)
    /\ Record(step(emulator, env), Op("step", Fetched(emulator), env, <<>>))

\* emulator.execute_many(instructions), for instructions other than Call and Return
ExecuteMany(instructions, env) ==
    /\ Ok(emulator)
    /\ \A k \in DOMAIN instructions : instructions[k].op \notin {"Call", "Return"}
    /\ emulator' = execute_many(emulator, instructions, env)
    /\ pre' = emulator
    /\ last' = [Op("execute_many", InsNone, env, <<>>) EXCEPT !.instructions = instructions]
    /\ pre2' = pre
    /\ last2' = last
    /\ calls' = [k \in DOMAIN calls |->
                    [calls[k] EXCEPT !.others = @ + Len(instructions)]]
    /\ steps' = steps + 1
    /\ UNCHANGED <<overflow_checks, km, kb, keypad, splitter>>

\* emulator.load(program)
Load(program) ==
    /\ Ok(emulator)
    /\ Record(load(emulator, program), Op("load", InsNone, DummyEnv, program))

\* A state of the emulator, with an empty history, in either build
Core(st) ==
    /\ emulator = st
    /\ overflow_checks \in BOOLEAN
    /\ last = OpNew
    /\ pre = st
    /\ last2 = OpNew
    /\ pre2 = st
    /\ calls = <<>>
    /\ steps = 0

\* The same with no frontend attached
Start(st) ==
    /\ Core(st)
    /\ km = NoFrontend
    /\ kb = NoFrontend
    /\ keypad = NoFrontend
    /\ splitter = NoSplitter

\* The last operation ran instruction `op` to its end
Ran(op) == last.kind \in {"execute_single", "step"} /\ last.ins.op = op /\ Ok(emulator)

(***************************************************************************)
(* SpecAlu: the register arithmetic of execute_single (8XY4..8XYE).        *)
(* The initial states are emulators whose registers VA, VB, VF hold        *)
(* sampled bytes; SetRegToConst and Goto(0x200) reach each of them.        *)
(***************************************************************************)
MaxAluSteps == 2

ByteSamples == {0, 1, 128, 183, 255}

FlagSamples == {1, 254}

AluRegs == {10, 11, 15}

AluInit ==
    \E a \in ByteSamples, b \in ByteSamples, f \in FlagSamples :
        Start([Emulator_new EXCEPT !.registers[10] = a,
                                   !.registers[11] = b,
                                   !.registers[15] = f])

AluInstrs ==
    { Ins(op, x, y, 0, 0) :
        op \in {"IncRegByReg", "DecRegByReg", "SetVxVyMinusVx"},
        x \in AluRegs, y \in AluRegs }
    \cup { Ins(op, x, 0, 0, 0) : op \in {"BitshiftRight", "BitshiftLeft"}, x \in AluRegs }

AluNext ==
    /\ steps < MaxAluSteps
    /\ \E ins \in AluInstrs : ExecuteSingle(ins, DummyEnv)

SpecAlu == AluInit /\ [][AluNext]_vars

\* The operands of the last instruction as they were before it
PreVx == pre.registers[last.ins.x]
PreVy == pre.registers[last.ins.y]
NowVx == emulator.registers[last.ins.x]
NowVy == emulator.registers[last.ins.y]
NowVF == emulator.registers[VF]

(***************************************************************************)
(* C2.  AddReg flag law: after AddReg(x, y) with x, y distinct and         *)
(* x # 0xF, Vx is the sum of the old Vx and Vy modulo 256, and VF is 1 if  *)
(* the sum exceeds 255 and 0 otherwise.                                    *)
(***************************************************************************)
C2_AddRegFlagLaw ==
    (Ran("IncRegByReg") /\ last.ins.x # last.ins.y /\ last.ins.x # VF) =>
        /\ NowVx = (PreVx + PreVy) % 256
        /\ NowVF = (IF PreVx + PreVy > 255 THEN 1 ELSE 0)

\* An addition that carried (183 + 128 = 311) and left 55 with VF = 1
C2_Witness ==
    /\ Ran("IncRegByReg") /\ last.ins.x = 10 /\ last.ins.y = 11
    /\ PreVx = 183 /\ PreVy = 128
    /\ NowVx = 55 /\ NowVF = 1

(***************************************************************************)
(* C3.  SubReg borrow law: after SubReg(x, y) with x # 0xF, Vx is the old  *)
(* Vx minus the old Vy modulo 256, and VF is 1 exactly when the old Vx is  *)
(* at least the old Vy (no borrow), else 0.                                *)
(***************************************************************************)
C3_SubRegBorrowLaw ==
    (Ran("DecRegByReg") /\ last.ins.x # VF) =>
        /\ NowVx = (PreVx - PreVy + 256) % 256
        /\ NowVF = (IF PreVx >= PreVy THEN 1 ELSE 0)

\* A subtraction that borrowed (1 - 183) and left 74 with VF = 0
C3_Witness ==
    /\ Ran("DecRegByReg") /\ last.ins.x = 10 /\ last.ins.y = 11
    /\ PreVx = 1 /\ PreVy = 183
    /\ NowVx = 74 /\ NowVF = 0

(***************************************************************************)
(* C4.  Reversed subtraction, as claimed: after SetVxVyMinusVx(x, y) with  *)
(* x # 0xF, Vx is the old Vy minus the old Vx modulo 256, Vy is unchanged, *)
(* and VF is 1 exactly when the old Vy is at least the old Vx.             *)
(***************************************************************************)
C4_ReversedSubAsClaimed ==
    (Ran("SetVxVyMinusVx") /\ last.ins.x # VF) =>
        /\ NowVx = (PreVy - PreVx + 256) % 256
        /\ NowVy = PreVy
        /\ NowVF = (IF PreVy >= PreVx THEN 1 ELSE 0)

(***************************************************************************)
(* C4 amended.  After SetVxVyMinusVx(x, y) with x # 0xF, Vx is the old Vy  *)
(* minus the old Vx modulo 256 and VF is 1 exactly when the old Vy is at   *)
(* least the old Vx; Vy is unchanged when y is neither x nor 0xF (as Vx it *)
(* holds the difference, as VF the flag).                                  *)
(***************************************************************************)
C4_ReversedSub ==
    (Ran("SetVxVyMinusVx") /\ last.ins.x # VF) =>
        /\ NowVx = (PreVy - PreVx + 256) % 256
        /\ NowVF = (IF PreVy >= PreVx THEN 1 ELSE 0)
        /\ (last.ins.y \notin {last.ins.x, VF} => NowVy = PreVy)

\* A reversed subtraction that borrowed (1 - 183), Vy kept
C4_Witness ==
    /\ Ran("SetVxVyMinusVx") /\ last.ins.x = 10 /\ last.ins.y = 11
    /\ PreVx = 183 /\ PreVy = 1
    /\ NowVx = 74 /\ NowVy = 1 /\ NowVF = 0

(***************************************************************************)
(* C5.  Shift laws: for x # 0xF, ShiftRight(x) leaves VF = bit 0 of the    *)
(* old Vx and Vx = old Vx div 2; ShiftLeft(x) leaves VF = bit 7 of the old *)
(* Vx and Vx = 2 * old Vx modulo 256.  Holding after every shift, it holds *)
(* after each of repeated shifts.                                          *)
(***************************************************************************)
C5_ShiftLaws ==
    /\ (Ran("BitshiftRight") /\ last.ins.x # VF) =>
            /\ NowVF = PreVx % 2
            /\ NowVx = PreVx \div 2
    /\ (Ran("BitshiftLeft") /\ last.ins.x # VF) =>
            /\ NowVF = (PreVx \div 128) % 2
            /\ NowVx = (2 * PreVx) % 256

\* 0b10110111 shifted left twice: the first shift evicted 1, the second 0
C5_Witness ==
    /\ Ran("BitshiftLeft") /\ last.ins.x = 10
    /\ last2.ins.op = "BitshiftLeft" /\ last2.ins.x = 10
    /\ pre2.registers[10] = 183
    /\ pre.registers[10] = 110 /\ pre.registers[VF] = 1
    /\ NowVx = 220 /\ NowVF = 0

(***************************************************************************)
(* C6.  VF is the final write of every flag-producing opcode: when AddReg, *)
(* SubReg, reversed SubReg, ShiftRight, ShiftLeft or Draw runs with        *)
(* x = 0xF, VF afterwards is the flag computed from the operands as they   *)
(* were before the instruction, and so is 0 or 1.                          *)
(***************************************************************************)
\* The cells a Draw of n rows from machine state st at registers x, y covers
SpriteCells(st, x, y, n) ==
    { <<st.registers[x] + w, st.registers[y] + h>> : w \in 0..7, h \in 0..(n - 1) }

\* The sprite bit Draw from st lays on cell c (0 outside the sprite)
SpriteBit(st, x, y, n, c) ==
    IF c \in SpriteCells(st, x, y, n)
    THEN Bit(ArrayGet(st.memory, st.i + (c[2] - st.registers[y])),
             7 - (c[1] - st.registers[x]))
    ELSE 0

\* Some cell set before the Draw lies under a 1 bit of the sprite
Collides(st, x, y, n) ==
    \E c \in SpriteCells(st, x, y, n) :
        output_get(st.output, c[1], c[2]) = 1 /\ SpriteBit(st, x, y, n, c) = 1

C6_VFIsFinalWrite ==
    (Ok(emulator) /\ last.kind \in {"execute_single", "step"} /\ last.ins.x = VF) =>
        /\ last.ins.op = "IncRegByReg" =>
                NowVF = (IF PreVx + PreVy > 255 THEN 1 ELSE 0)
        /\ last.ins.op = "DecRegByReg" =>
                NowVF = (IF PreVx >= PreVy THEN 1 ELSE 0)
        /\ last.ins.op = "SetVxVyMinusVx" =>
                NowVF = (IF PreVy >= PreVx THEN 1 ELSE 0)
        /\ last.ins.op = "BitshiftRight" => NowVF = PreVx % 2
        /\ last.ins.op = "BitshiftLeft" => NowVF = (PreVx \div 128) % 2
        /\ last.ins.op = "Draw" =>
                NowVF = (IF Collides(pre, last.ins.x, last.ins.y, last.ins.n) THEN 1 ELSE 0)

(***************************************************************************)
(* SpecDraw: Draw on the DummyOutput screen.  The initial states are       *)
(* emulators with VA, VB and I set (SetRegToConst, SetI and Goto(0x200)    *)
(* reach each): I points at the glyph of 0 or of 1 in the font, at zeroed  *)
(* memory, or two bytes below the end of memory.  The instructions draw    *)
(* sprites of 0, 1 and 5 rows, clear the screen, move the sprite and       *)
(* choose another one.                                                     *)
(***************************************************************************)
MaxDrawSteps == 3

DrawXs == {0, 4}

DrawYs == {0, 1}

DrawAddrs == {0, 5, 768}

DrawInit ==
    \E vx \in DrawXs, vy \in DrawYs, a \in DrawAddrs \cup {MEM_SIZE - 2} :
        Start([Emulator_new EXCEPT !.registers[10] = vx,
                                   !.registers[11] = vy,
                                   !.i = a])

DrawInstrs ==
    { Ins("Draw", 10, 11, n, 0) : n \in {0, 1, 5} }
    \cup { Ins("Draw", VF, 11, 5, 0) }
    \cup { Ins("ClearScreen", 0, 0, 0, 0) }
    \cup { Ins("SetI", 0, 0, 0, a) : a \in DrawAddrs }
    \cup { Ins("SetRegToConst", 10, 0, v, 0) : v \in DrawXs }

DrawNext ==
    /\ steps < MaxDrawSteps
    /\ \E ins \in DrawInstrs : ExecuteSingle(ins, DummyEnv)

SpecDraw == DrawInit /\ [][DrawNext]_vars

\* The value of cell c on the screen of machine state st
Cell(st, c) == output_get(st.output, c[1], c[2])

\* Every cell some screen of the history holds, and every cell the last Draw covers
AllCells ==
    (DOMAIN emulator.output) \cup (DOMAIN pre.output) \cup (DOMAIN pre2.output)
        \cup SpriteCells(pre, last.ins.x, last.ins.y, last.ins.n)

\* The last two operations were the same Draw, run with the same I, Vx, Vy and memory
DoubleDraw ==
    /\ Ran("Draw")
    /\ last2.kind = last.kind /\ last2.ins = last.ins
    /\ pre.i = pre2.i
    /\ pre.registers[last.ins.x] = pre2.registers[last.ins.x]
    /\ pre.registers[last.ins.y] = pre2.registers[last.ins.y]
    /\ pre.memory = pre2.memory

(***************************************************************************)
(* C7.  Double draw, as claimed: the same Draw executed twice in a row     *)
(* with unchanged I, Vx, Vy and sprite memory restores every cell to its   *)
(* value before the first draw, and the second draw reports VF = 1.        *)
(***************************************************************************)
C7_DoubleDrawAsClaimed ==
    DoubleDraw =>
        /\ \A c \in AllCells : Cell(emulator, c) = Cell(pre2, c)
        /\ NowVF = 1

(***************************************************************************)
(* C7 amended.  The same Draw executed twice in a row with unchanged I,    *)
(* Vx, Vy and sprite memory restores every cell to its value before the    *)
(* first draw; the second draw reports VF = 1 exactly when the first draw  *)
(* turned at least one cell from 0 to 1, and VF = 0 otherwise (a sprite of *)
(* no rows or no 1 bits, or one whose 1 bits all fell on set cells).       *)
(***************************************************************************)
C7_DoubleDraw ==
    DoubleDraw =>
        /\ \A c \in AllCells : Cell(emulator, c) = Cell(pre2, c)
        /\ NowVF = (IF \E c \in AllCells : Cell(pre2, c) = 0 /\ Cell(pre, c) = 1
                    THEN 1 ELSE 0)

\* The glyph of 0 drawn twice on an empty screen: the screen is empty again, VF = 1
C7_Witness ==
    /\ DoubleDraw /\ last.ins.n = 5 /\ pre.i = 0
    /\ \A c \in DOMAIN pre2.output : pre2.output[c] = 0
    /\ \E c \in DOMAIN pre.output : pre.output[c] = 1
    /\ \A c \in AllCells : Cell(emulator, c) = 0
    /\ NowVF = 1

(***************************************************************************)
(* C8.  Disjoint sprites never collide: when no cell under a 1 bit of the  *)
(* sprite is set before the Draw, VF = 0 after it and every cell that was  *)
(* set is still set.                                                       *)
(***************************************************************************)
C8_DisjointNoCollision ==
    (Ran("Draw") /\ ~Collides(pre, last.ins.x, last.ins.y, last.ins.n)) =>
        /\ NowVF = 0
        /\ \A c \in DOMAIN pre.output : Cell(pre, c) = 1 => Cell(emulator, c) = 1

\* A sprite with 1 bits drawn over set cells that lie only under its 0 bits
C8_Witness ==
    /\ Ran("Draw") /\ ~Collides(pre, last.ins.x, last.ins.y, last.ins.n)
    /\ \E c \in SpriteCells(pre, last.ins.x, last.ins.y, last.ins.n) :
            Cell(pre, c) = 1 /\ Cell(emulator, c) = 1
    /\ \E c \in SpriteCells(pre, last.ins.x, last.ins.y, last.ins.n) :
            Cell(pre, c) = 0 /\ Cell(emulator, c) = 1
    /\ NowVF = 0

(***************************************************************************)
(* C9.  Blit rule: after Draw(x, y, n), for every row h < n and column     *)
(* w < 8 the cell (Vx + w, Vy + h) is its old value XOR bit 7 - w of       *)
(* memory[I + h]; no other cell changes; VF = 1 if and only if some        *)
(* written cell went from 1 to 0, else VF = 0.                             *)
(***************************************************************************)
C9_BlitRule ==
    Ran("Draw") =>
        LET x == last.ins.x
            y == last.ins.y
            n == last.ins.n
            written == { <<pre.registers[x] + w, pre.registers[y] + h>> :
                            w \in 0..7, h \in 0..(n - 1) }
        IN  /\ \A h \in 0..(n - 1), w \in 0..7 :
                  LET c == <<pre.registers[x] + w, pre.registers[y] + h>>
                      bit == (ArrayGet(pre.memory, pre.i + h) \div (2 ^ (7 - w))) % 2
                  IN  Cell(emulator, c) = (Cell(pre, c) + bit) % 2
            /\ \A c \in AllCells \ written : Cell(emulator, c) = Cell(pre, c)
            /\ NowVF = (IF \E c \in written : Cell(pre, c) = 1 /\ Cell(emulator, c) = 0
                        THEN 1 ELSE 0)

\* The glyph of 1 drawn over the glyph of 0: cells set, cells cleared, VF = 1
C9_Witness ==
    /\ Ran("Draw") /\ last.ins.n = 5 /\ last.ins.x = 10 /\ pre.i = 5
    /\ \E c \in AllCells : Cell(pre, c) = 1 /\ Cell(emulator, c) = 0
    /\ \E c \in AllCells : Cell(pre, c) = 0 /\ Cell(emulator, c) = 1
    /\ \E c \in AllCells : Cell(pre, c) = 1 /\ Cell(emulator, c) = 1
    /\ NowVF = 1

(***************************************************************************)
(* SpecLoad: load on a new emulator and on one that has stepped.  The      *)
(* programs repeat one instruction word up to a length below, at and above *)
(* the 4096 - 0x200 = 3584 bytes that fit behind PC_START.                 *)
(***************************************************************************)
MaxLoadSteps == 2

LoadLens == {0, 1, 2, 3583, 3584, 3585, 4096}

\* 6A07: SetRegToConst(VA, 7); 1200: Goto(0x200)
LoadWords == {<<106, 7>>, <<18, 0>>}

Program(word, len) == [k \in 1..len |-> word[2 - (k % 2)]]

LoadPrograms == { Program(word, len) : word \in LoadWords, len \in LoadLens }

LoadInit == Start(Emulator_new)

LoadNext ==
    /\ steps < MaxLoadSteps
    /\ \/ \E program \in LoadPrograms : Load(program)
       \/ Step(DummyEnv)

SpecLoad == LoadInit /\ [][LoadNext]_vars

\* The number of bytes that fit between the program counter and the end of memory
Room(st) == MEM_SIZE - st.program_counter

(***************************************************************************)
(* C1.  load never fails and never writes past 0xFFF: for a program of any *)
(* length, load copies exactly the first min(len, 3584) bytes to memory    *)
(* from the program counter (0x200 on a new emulator, where 3584 bytes     *)
(* fit), leaves every other byte alone, and raises no error.               *)
(***************************************************************************)
C1_LoadTruncates ==
    last.kind = "load" =>
        LET program == last.program
            start == pre.program_counter
            len == Min(Len(program), Room(pre))
        IN  /\ Ok(emulator)
            /\ \A a \in 0..(MEM_SIZE - 1) :
                  ArrayGet(emulator.memory, a) =
                      IF a >= start /\ a < start + len
                      THEN program[a - start + 1]
                      ELSE ArrayGet(pre.memory, a)
            /\ DOMAIN emulator.memory \subseteq 0..(MEM_SIZE - 1)

(***************************************************************************)
(* SpecCall: programs of Calls and Returns, loaded on a new emulator and   *)
(* stepped.  The first never returns and nests Calls until the stack is    *)
(* full; the second is the program of tests::return_after_call_is_neutral; *)
(* the third nests two Calls and returns from both, twice over; the fourth *)
(* calls a subroutine of two register loads and loops.                     *)
(***************************************************************************)
MaxCallSteps == 258

CallPrograms ==
    { <<34, 0>>,
      <<34, 6, 0, 0, 0, 0, 0, 238>>,
      <<34, 6, 34, 6, 18, 0, 34, 10, 0, 238, 0, 238>>,
      <<34, 4, 18, 0, 106, 7, 107, 1, 0, 238>> }

CallInit == Start(Emulator_new)

CallNext ==
    /\ steps < MaxCallSteps
    /\ \/ steps = 0 /\ \E program \in CallPrograms : Load(program)
       \/ steps > 0 /\ Step(DummyEnv)

SpecCall == CallInit /\ [][CallNext]_vars

(***************************************************************************)
(* C10.  Return after Call is neutral: a step that executes Call(a) at     *)
(* address p sets PC = a and pushes p + 2; the Return that matches it sets *)
(* PC = p + 2 and restores the stack pointer the Call found; nested Calls  *)
(* are returned from innermost first.                                      *)
(***************************************************************************)
C10_ReturnAfterCall ==
    /\ (last.kind = "step" /\ last.ins.op = "Call") =>
            /\ Ok(emulator)
            /\ emulator.program_counter = last.ins.addr
            /\ ArrayGet(emulator.stack, pre.stack_pointer) = pre.program_counter + 2
    /\ (last.kind = "step" /\ last.ins.op = "Return" /\ last.matched.some) =>
            /\ Ok(emulator)
            /\ emulator.program_counter = last.matched.at + 2
            /\ emulator.stack_pointer = last.matched.sp

(***************************************************************************)
(* C11.  Call/Return law as stated: over an executed sequence in which     *)
(* Calls and Returns are balanced and nesting stays within the stack, PC   *)
(* after the sequence is PC before it plus 2 times the number of           *)
(* instructions in it that are neither Call nor Return.  Stated for the    *)
(* sequences that run from a Call to the Return that matches it.           *)
(***************************************************************************)
C11_CallReturnLawAsClaimed ==
    (last.kind = "step" /\ last.ins.op = "Return" /\ last.matched.some
        /\ Ok(emulator) /\ Len(calls) < STACK_SIZE) =>
        emulator.program_counter = last.matched.at + 2 * last.matched.others

(***************************************************************************)
(* C11 amended.  Over an executed sequence that runs from a Call fetched   *)
(* at address p to the Return that matches it, nesting staying within the  *)
(* stack, PC after the sequence is p + 2: the Call itself accounts for 2,  *)
(* and the instructions of the subroutine, however many, for nothing.      *)
(***************************************************************************)
C11_CallReturnLaw ==
    (last.kind = "step" /\ last.ins.op = "Return" /\ last.matched.some
        /\ Ok(emulator) /\ Len(calls) < STACK_SIZE) =>
        emulator.program_counter = last.matched.at + 2

\* The Return from a subroutine of two other instructions, to the address after the Call
C11_Witness ==
    /\ last.kind = "step" /\ last.ins.op = "Return" /\ last.matched.some /\ Ok(emulator)
    /\ last.matched.others = 2
    /\ emulator.program_counter = last.matched.at + 2

(***************************************************************************)
(* C12.  Stack pointer invariant: while every Return has a Call to match   *)
(* and at most 256 Calls are outstanding, neither Call nor Return faults,  *)
(* the stack pointer equals the number of outstanding Calls and stays in   *)
(* 0..256; 256 outstanding Calls are reachable.                            *)
(***************************************************************************)
C12_StackPointerInvariant ==
    (Len(calls) <= STACK_SIZE /\ (last.ins.op = "Return" => last.matched.some)) =>
        /\ last.ins.op \in {"Call", "Return"} => Ok(emulator)
        /\ emulator.stack_pointer = Len(calls)
        /\ emulator.stack_pointer \in 0..STACK_SIZE

(***************************************************************************)
(* SpecMem: the instructions that move registers to memory and back        *)
(* (FX33, FX55, FX65).  The initial states are emulators whose registers   *)
(* and I hold sampled values (SetRegToConst, SetI and Goto(0x200) reach    *)
(* each): I lies in the font, in zeroed memory, and 3, 2 and 1 bytes below *)
(* the end of memory.                                                      *)
(***************************************************************************)
MaxMemSteps == 2

\* Register files: all zero, Vr = 17 * r (V(15) = 255), Vr = 184 + 17 * r mod 256
RegFiles ==
    { [r \in 0..(NUM_REGISTERS - 1) |-> 0],
      [r \in 0..(NUM_REGISTERS - 1) |-> 17 * r],
      [r \in 0..(NUM_REGISTERS - 1) |-> (184 + 17 * r) % U8] }

MemAddrs == {3, 768, MEM_SIZE - 16, MEM_SIZE - 3, MEM_SIZE - 2, MEM_SIZE - 1}

MemRegs == {0, 2, 15}

MemInit ==
    \E regs \in RegFiles, a \in MemAddrs :
        Start([Emulator_new EXCEPT !.registers = regs, !.i = a])

\* execute_many of SetRegToConst(Vr, 0) for every register
ZeroRegisters == [k \in 1..NUM_REGISTERS |-> Ins("SetRegToConst", k - 1, 0, 0, 0)]

\* RegDump(x), the zeroing of the register file, RegLoad(x)
RoundTrip(x) ==
    <<Ins("RegDump", x, 0, 0, 0)>> \o ZeroRegisters \o <<Ins("RegLoad", x, 0, 0, 0)>>

MemInstrs ==
    { Ins(op, x, 0, 0, 0) : op \in {"SetIToBcdOfReg", "RegDump", "RegLoad"}, x \in MemRegs }
    \cup { Ins("SetRegToConst", 2, 0, v, 0) : v \in {9, 184} }
    \cup { Ins("SetI", 0, 0, 0, a) : a \in {3, 768} }

MemNext ==
    /\ steps < MaxMemSteps
    /\ \/ \E ins \in MemInstrs : ExecuteSingle(ins, DummyEnv)
       \/ \E x \in MemRegs : ExecuteMany(RoundTrip(x), DummyEnv)

SpecMem == MemInit /\ [][MemNext]_vars

\* The last operation was execute_single or step of instruction op, finished or not
Did(op) == last.kind \in {"execute_single", "step"} /\ last.ins.op = op

\* Every byte of memory outside addresses lo..hi is as before the last operation
MemorySameOutside(lo, hi) ==
    \A a \in (DOMAIN emulator.memory \cup DOMAIN pre.memory) \ (lo..hi) :
        ArrayGet(emulator.memory, a) = ArrayGet(pre.memory, a)

(***************************************************************************)
(* C13.  BCD law: with I, I + 1, I + 2 inside memory, StoreBCD(x) of       *)
(* v = Vx writes memory[I] = v div 100, memory[I + 1] = (v div 10) mod 10, *)
(* memory[I + 2] = v mod 10, and changes no other byte of memory.          *)
(***************************************************************************)
C13_BcdLaw ==
    (Did("SetIToBcdOfReg") /\ pre.i + 2 < MEM_SIZE) =>
        LET v == pre.registers[last.ins.x]
        IN  /\ Ok(emulator)
            /\ ArrayGet(emulator.memory, pre.i) = v \div 100
            /\ ArrayGet(emulator.memory, pre.i + 1) = (v \div 10) % 10
            /\ ArrayGet(emulator.memory, pre.i + 2) = v % 10
            /\ MemorySameOutside(pre.i, pre.i + 2)

\* 184 stored as 1, 8, 4 in the last three bytes of memory
C13_Witness ==
    /\ Did("SetIToBcdOfReg") /\ Ok(emulator)
    /\ pre.registers[last.ins.x] = 184 /\ pre.i = MEM_SIZE - 3
    /\ ArrayGet(emulator.memory, MEM_SIZE - 3) = 1
    /\ ArrayGet(emulator.memory, MEM_SIZE - 2) = 8
    /\ ArrayGet(emulator.memory, MEM_SIZE - 1) = 4

(***************************************************************************)
(* C14.  RegDump/RegLoad round trip: with I..I + x inside memory,          *)
(* RegDump(x) writes V0..Vx to memory[I..I + x] and no other byte;         *)
(* RegLoad(x) with the same I on a zeroed register file then restores      *)
(* V0..Vx; neither instruction changes V(x + 1)..VF or I.                  *)
(***************************************************************************)
C14_DumpLoadRoundTrip ==
    /\ (Did("RegDump") /\ pre.i + last.ins.x < MEM_SIZE) =>
            /\ Ok(emulator)
            /\ \A k \in 0..last.ins.x :
                  ArrayGet(emulator.memory, pre.i + k) = pre.registers[k]
            /\ MemorySameOutside(pre.i, pre.i + last.ins.x)
            /\ emulator.registers = pre.registers
            /\ emulator.i = pre.i
    /\ (Did("RegLoad") /\ pre.i + last.ins.x < MEM_SIZE) =>
            /\ Ok(emulator)
            /\ \A k \in 0..last.ins.x :
                  emulator.registers[k] = ArrayGet(pre.memory, pre.i + k)
            /\ \A k \in (last.ins.x + 1)..(NUM_REGISTERS - 1) :
                  emulator.registers[k] = pre.registers[k]
            /\ emulator.i = pre.i
            /\ emulator.memory = pre.memory
    /\ \A x \in MemRegs :
          (last.kind = "execute_many" /\ last.instructions = RoundTrip(x)
                /\ pre.i + x < MEM_SIZE) =>
            /\ Ok(emulator)
            /\ \A k \in 0..x : emulator.registers[k] = pre.registers[k]
            /\ \A k \in (x + 1)..(NUM_REGISTERS - 1) : emulator.registers[k] = 0
            /\ emulator.i = pre.i

\* V0..V2 dumped, the registers zeroed, V0..V2 loaded back: nonzero values restored
C14_Witness ==
    /\ last.kind = "execute_many" /\ last.instructions = RoundTrip(2) /\ Ok(emulator)
    /\ pre.registers[2] = 218 /\ pre.registers[15] # 0
    /\ emulator.registers[0] = 184 /\ emulator.registers[2] = 218
    /\ emulator.registers[15] = 0

(***************************************************************************)
(* SpecFont: SetIToSpriteAddrVx (FX29).  The initial states are emulators  *)
(* with one register set by SetRegToConst to a hex digit or to a larger    *)
(* value; SetIToBcdOfReg overwrites the font where I points.               *)
(***************************************************************************)
MaxFontSteps == 2

Digits == 0..15

FontRegs == {0, 10, 15}

FontInit ==
    \E x \in FontRegs, v \in Digits \cup {16, 255} :
        Start([Emulator_new EXCEPT !.registers[x] = v])

FontInstrs ==
    { Ins("SetIToSpriteAddrVx", x, 0, 0, 0) : x \in FontRegs }
    \cup { Ins("SetIToBcdOfReg", 10, 0, 0, 0) }
    \cup { Ins("SetRegToConst", 10, 0, v, 0) : v \in {7, 200} }

FontNext ==
    /\ steps < MaxFontSteps
    /\ \E ins \in FontInstrs : ExecuteSingle(ins, DummyEnv)

SpecFont == FontInit /\ [][FontNext]_vars

\* The 5 rows of the glyph of hex digit d in the font table
Glyph(d) == SubSeq(FONT, 5 * d + 1, 5 * d + 5)

\* memory[0..79] still holds the font table
FontIntact(st) == \A a \in 0..(Len(FONT) - 1) : ArrayGet(st.memory, a) = FONT[a + 1]

(***************************************************************************)
(* C15.  Font addressing: for Vx in 0..15, SetIToFontAddr(x) sets          *)
(* I = 5 * Vx, and while low memory has not been overwritten               *)
(* memory[I..I + 4] are the 5 rows of the glyph of hex digit Vx.           *)
(***************************************************************************)
C15_FontAddressing ==
    (Did("SetIToSpriteAddrVx") /\ pre.registers[last.ins.x] \in Digits) =>
        /\ Ok(emulator)
        /\ emulator.i = 5 * pre.registers[last.ins.x]
        /\ FontIntact(emulator) =>
              [k \in 1..5 |-> ArrayGet(emulator.memory, emulator.i + k - 1)]
                  = Glyph(pre.registers[last.ins.x])

\* I set to the glyph of F, the last of the table: F0 80 F0 80 80 at 75..79
C15_Witness ==
    /\ Did("SetIToSpriteAddrVx") /\ Ok(emulator)
    /\ pre.registers[last.ins.x] = 15 /\ pre.i # 75
    /\ emulator.i = 75
    /\ FontIntact(emulator)
    /\ [k \in 1..5 |-> ArrayGet(emulator.memory, 74 + k)] = <<240, 128, 240, 128, 128>>

(***************************************************************************)
(* C16.  Initial state: a newly constructed machine has PC = 0x200, all 16 *)
(* registers 0, I = 0, both timers 0, stack pointer 0, every stack entry   *)
(* 0, memory[0..79] equal to the font table and every other byte 0.        *)
(***************************************************************************)
C16_InitialState ==
    last.kind = "new" =>
        /\ Ok(emulator)
        /\ emulator.program_counter = 512
        /\ DOMAIN emulator.registers = 0..15
        /\ \A r \in 0..15 : emulator.registers[r] = 0
        /\ emulator.i = 0
        /\ emulator.delay_timer = 0 /\ emulator.sound_timer = 0
        /\ emulator.stack_pointer = 0
        /\ \A k \in 0..255 : ArrayGet(emulator.stack, k) = 0
        /\ \A a \in 0..79 : ArrayGet(emulator.memory, a) = FONT[a + 1]
        /\ \A a \in 80..4095 : ArrayGet(emulator.memory, a) = 0
        /\ DOMAIN emulator.memory \subseteq 0..4095
        /\ DOMAIN emulator.stack \subseteq 0..255

\* The machine as constructed, before any operation: the font's first and last bytes
C16_Witness ==
    /\ last.kind = "new" /\ steps = 0
    /\ emulator.program_counter = PC_START
    /\ ArrayGet(emulator.memory, 0) = 240 /\ ArrayGet(emulator.memory, 79) = 128
    /\ ArrayGet(emulator.memory, 80) = 0

(***************************************************************************)
(* SpecDecode: instruction words loaded on a new emulator as a program of  *)
(* two bytes and stepped: every first, third and fourth nibble, with the   *)
(* second nibble (compared by the arms 00E0 and 00EE only, an operand      *)
(* elsewhere) 0, 1, 0xA or 0xF.  The step after it fetches whatever the    *)
(* first instruction left at the program counter.                          *)
(***************************************************************************)
MaxDecodeSteps == 2

Lefts == { 16 * a + x : a \in 0..15, x \in {0, 1, 10, 15} }

Rights == 0..255

DecodeInit == Start(Emulator_new)

DecodeNext ==
    /\ steps < MaxDecodeSteps
    /\ \/ steps = 0 /\ \E left \in Lefts, right \in Rights : Load(<<left, right>>)
       \/ steps > 0 /\ Step(DummyEnv)

SpecDecode == DecodeInit /\ [][DecodeNext]_vars

\* The last operation was a step whose fetch was inside memory
Stepped == last.kind = "step" /\ pre.program_counter + 1 < MEM_SIZE

\* The two bytes the last step fetched
Left == ArrayGet(pre.memory, pre.program_counter)

Right == ArrayGet(pre.memory, pre.program_counter + 1)

(***************************************************************************)
(* C17.  Decode errors are fatal: a word that matches no opcode pattern    *)
(* makes decoding halt with a fatal error, no instruction is made up for   *)
(* it, and the step that fetched it applies no effect: registers, I,       *)
(* memory, stack, stack pointer and PC are as before the step.             *)
(***************************************************************************)
C17_DecodeErrorFatal ==
    (Stepped /\ Hits(Left, Right) = {}) =>
        /\ emulator.fault = "Unknown opcode!"
        /\ last.ins.op = "Unknown"
        /\ emulator.registers = pre.registers
        /\ emulator.i = pre.i
        /\ emulator.memory = pre.memory
        /\ emulator.stack = pre.stack
        /\ emulator.stack_pointer = pre.stack_pointer
        /\ emulator.program_counter = pre.program_counter

\* 8AB8 (8XY8, no such opcode) fetched at 0x200: the step halts where it was
C17_Witness ==
    /\ Stepped /\ Left = 138 /\ Right = 184
    /\ emulator.fault = "Unknown opcode!"
    /\ emulator.program_counter = PC_START

\* The opcodes of the claim other than 0NNN, as nibble tuples (-1: an operand nibble)
CanonicalOpcodes ==
    { <<0, 0, 14, 0>>, <<0, 0, 14, 14>>, <<1, -1, -1, -1>>, <<2, -1, -1, -1>>,
      <<3, -1, -1, -1>>, <<4, -1, -1, -1>>, <<5, -1, -1, 0>>, <<6, -1, -1, -1>>,
      <<7, -1, -1, -1>>, <<8, -1, -1, 0>>, <<8, -1, -1, 1>>, <<8, -1, -1, 2>>,
      <<8, -1, -1, 3>>, <<8, -1, -1, 4>>, <<8, -1, -1, 5>>, <<8, -1, -1, 6>>,
      <<8, -1, -1, 7>>, <<8, -1, -1, 14>>, <<9, -1, -1, 0>>, <<10, -1, -1, -1>>,
      <<11, -1, -1, -1>>, <<12, -1, -1, -1>>, <<13, -1, -1, -1>>, <<14, -1, 9, 14>>,
      <<14, -1, 10, 1>>, <<15, -1, 0, 7>>, <<15, -1, 0, 10>>, <<15, -1, 1, 5>>,
      <<15, -1, 1, 8>>, <<15, -1, 1, 14>>, <<15, -1, 2, 9>>, <<15, -1, 3, 3>>,
      <<15, -1, 5, 5>>, <<15, -1, 6, 5>> }

\* The nibbles of the word the last step fetched, as the claim counts them
Nibbles == <<Left \div 16, Left % 16, Right \div 16, Right % 16>>

\* The word the last step fetched is an instance of opcode c
IsOpcode(c) == \A k \in 1..4 : c[k] = -1 \/ c[k] = Nibbles[k]

(***************************************************************************)
(* C18.  Decoder coverage: no instruction word matches two patterns of the *)
(* decoder, and every word of the 35 canonical opcodes (0NNN, 00E0, 00EE,  *)
(* 1NNN, ..., FX65) is recognised, each opcode by exactly one pattern.     *)
(***************************************************************************)
C18_DecoderCoverage ==
    Stepped =>
        /\ Cardinality(Hits(Left, Right)) <= 1
        /\ \A c \in CanonicalOpcodes :
              IsOpcode(c) =>
                  /\ last.ins.op # "Unknown"
                  /\ \E k \in DOMAIN Patterns :
                        Hits(Left, Right) = {k} /\ Patterns[k].nib = c
        /\ Nibbles[1] = 0 =>
              /\ last.ins.op # "Unknown"
              /\ Cardinality(Hits(Left, Right)) = 1

\* The opcode families of the claim with the instruction each one is and the operands
\* it carries
Families ==
    { [code |-> <<0, 0, 14, 0>>,    op |-> "ClearScreen",        operands |-> {}],
      [code |-> <<0, 0, 14, 14>>,   op |-> "Return",             operands |-> {}],
      [code |-> <<1, -1, -1, -1>>,  op |-> "Goto",               operands |-> {"NNN"}],
      [code |-> <<2, -1, -1, -1>>,  op |-> "Call",               operands |-> {"NNN"}],
      [code |-> <<3, -1, -1, -1>>,  op |-> "IfRegEqConst",       operands |-> {"X", "NN"}],
      [code |-> <<4, -1, -1, -1>>,  op |-> "IfRegNeqConst",      operands |-> {"X", "NN"}],
      [code |-> <<5, -1, -1, 0>>,   op |-> "IfRegEqReg",         operands |-> {"X", "Y"}],
      [code |-> <<6, -1, -1, -1>>,  op |-> "SetRegToConst",      operands |-> {"X", "NN"}],
      [code |-> <<7, -1, -1, -1>>,  op |-> "IncRegByConst",      operands |-> {"X", "NN"}],
      [code |-> <<8, -1, -1, 0>>,   op |-> "SetRegToReg",        operands |-> {"X", "Y"}],
      [code |-> <<8, -1, -1, 1>>,   op |-> "BitwiseOr",          operands |-> {"X", "Y"}],
      [code |-> <<8, -1, -1, 2>>,   op |-> "BitwiseAnd",         operands |-> {"X", "Y"}],
      [code |-> <<8, -1, -1, 3>>,   op |-> "BitwiseXor",         operands |-> {"X", "Y"}],
      [code |-> <<8, -1, -1, 4>>,   op |-> "IncRegByReg",        operands |-> {"X", "Y"}],
      [code |-> <<8, -1, -1, 5>>,   op |-> "DecRegByReg",        operands |-> {"X", "Y"}],
      [code |-> <<8, -1, -1, 6>>,   op |-> "BitshiftRight",      operands |-> {"X"}],
      [code |-> <<8, -1, -1, 7>>,   op |-> "SetVxVyMinusVx",     operands |-> {"X", "Y"}],
      [code |-> <<8, -1, -1, 14>>,  op |-> "BitshiftLeft",       operands |-> {"X"}],
      [code |-> <<9, -1, -1, 0>>,   op |-> "IfRegNeqReg",        operands |-> {"X", "Y"}],
      [code |-> <<10, -1, -1, -1>>, op |-> "SetI",               operands |-> {"NNN"}],
      [code |-> <<11, -1, -1, -1>>, op |-> "SetPcToV0PlusAddr",  operands |-> {"NNN"}],
      [code |-> <<12, -1, -1, -1>>, op |-> "SetVxRand",          operands |-> {"X", "NN"}],
      [code |-> <<13, -1, -1, -1>>, op |-> "Draw",               operands |-> {"X", "Y", "N"}],
      [code |-> <<14, -1, 9, 14>>,  op |-> "IfKeyEqVx",          operands |-> {"X"}],
      [code |-> <<14, -1, 10, 1>>,  op |-> "IfKeyNeqVx",         operands |-> {"X"}],
      [code |-> <<15, -1, 0, 7>>,   op |-> "SetRegToDelayTimer", operands |-> {"X"}],
      [code |-> <<15, -1, 0, 10>>,  op |-> "SetRegToGetKey",     operands |-> {"X"}],
      [code |-> <<15, -1, 1, 5>>,   op |-> "SetDelayTimerToReg", operands |-> {"X"}],
      [code |-> <<15, -1, 1, 8>>,   op |-> "SetSoundTimerToReg", operands |-> {"X"}],
      [code |-> <<15, -1, 1, 14>>,  op |-> "AddRegToI",          operands |-> {"X"}],
      [code |-> <<15, -1, 2, 9>>,   op |-> "SetIToSpriteAddrVx", operands |-> {"X"}],
      [code |-> <<15, -1, 3, 3>>,   op |-> "SetIToBcdOfReg",     operands |-> {"X"}],
      [code |-> <<15, -1, 5, 5>>,   op |-> "RegDump",            operands |-> {"X"}],
      [code |-> <<15, -1, 6, 5>>,   op |-> "RegLoad",            operands |-> {"X"}] }

\* The operand of family fam named by letter, read off the fetched word (0 if not carried)
Operand(fam, letter, value) == IF letter \in fam.operands THEN value ELSE 0

(***************************************************************************)
(* C19.  Decode operand round trip: decoding the byte pair that encodes an *)
(* opcode of a family yields that family's instruction with the encoded    *)
(* operands: X the second nibble, Y the third, N the fourth, NN the low    *)
(* byte, NNN the low 12 bits.                                              *)
(***************************************************************************)
C19_DecodeOperands ==
    Stepped =>
        \A fam \in Families :
            IsOpcode(fam.code) =>
                /\ last.ins.op = fam.op
                /\ last.ins.x = Operand(fam, "X", Left % 16)
                /\ last.ins.y = Operand(fam, "Y", Right \div 16)
                /\ last.ins.n = Operand(fam, "N", Right % 16) + Operand(fam, "NN", Right)
                /\ last.ins.addr = Operand(fam, "NNN", (Left % 16) * 256 + Right)

\* 8AB4 decoded as IncRegByReg(VA, VB) and executed
C19_Witness ==
    /\ Stepped /\ Left = 138 /\ Right = 180
    /\ last.ins = Ins("IncRegByReg", 10, 11, 0, 0)
    /\ Ok(emulator)

(***************************************************************************)
(* SpecTimer: the timers under every instruction.  The initial states are  *)
(* reached from a new emulator by execute_many of a set-up that loads both *)
(* timers from registers; then one instruction of every variant may run.   *)
(***************************************************************************)
MaxTimerSteps == 2

\* Set-up: delay = d and sound = s loaded from VB and VC, then VA = 3.  The timers
\* are lowered by the instructions that follow their loading.
TimerSetup(d, s) ==
    << Ins("SetRegToConst", 11, 0, d, 0), Ins("SetDelayTimerToReg", 11, 0, 0, 0),
       Ins("SetRegToConst", 12, 0, s, 0), Ins("SetSoundTimerToReg", 12, 0, 0, 0),
       Ins("SetRegToConst", 10, 0, 3, 0) >>

TimerInit ==
    /\ overflow_checks \in BOOLEAN
    /\ \E d \in {0, 4, 255}, s \in {0, 2} :
          Start(execute_many(Emulator_new, TimerSetup(d, s), DummyEnv))

\* One instruction of every variant, and the delay timer loaded from VB as well
TimerInstrs ==
    { Ins(Patterns[k].op, 10, 11, 1, 768) : k \in DOMAIN Patterns }
    \cup { Ins("SetDelayTimerToReg", 11, 0, 0, 0) }

TimerNext ==
    /\ steps < MaxTimerSteps
    /\ \E ins \in TimerInstrs : ExecuteSingle(ins, DummyEnv)

SpecTimer == TimerInit /\ [][TimerNext]_vars

\* A timer of value t after the update at the head of an instruction
Lowered(t) == IF t > 0 THEN t - 1 ELSE 0

(***************************************************************************)
(* C20.  Timer law: every executed instruction first lowers the delay and  *)
(* the sound timer by 1 when positive and leaves a timer of 0 at 0; no     *)
(* timer wraps below 0; apart from that only SetDelay changes the delay    *)
(* timer and only SetSound the sound timer, each leaving the other alone.  *)
(***************************************************************************)
C20_TimerLaw ==
    (last.kind \in {"execute_single", "step"} /\ last.ins.op \notin {"None", "Unknown"}) =>
        /\ emulator.delay_timer =
              IF last.ins.op = "SetDelayTimerToReg" /\ Ok(emulator)
              THEN pre.registers[last.ins.x] ELSE Lowered(pre.delay_timer)
        /\ emulator.sound_timer =
              IF last.ins.op = "SetSoundTimerToReg" /\ Ok(emulator)
              THEN pre.registers[last.ins.x] ELSE Lowered(pre.sound_timer)
        /\ emulator.delay_timer \in 0..255
        /\ emulator.sound_timer \in 0..255

\* An instruction other than SetDelay and SetSound that found the delay timer at 0 and
\* the sound timer at 1: both are 0 after it
C20_Witness ==
    /\ last.kind = "execute_single" /\ Ok(emulator)
    /\ last.ins.op \notin {"SetDelayTimerToReg", "SetSoundTimerToReg"}
    /\ pre.delay_timer = 0 /\ pre.sound_timer = 1
    /\ emulator.delay_timer = 0 /\ emulator.sound_timer = 0

(***************************************************************************)
(* SpecFlow: control flow under step.  The initial states are reached from *)
(* a new emulator by execute_many of a set-up that loads V0, VA and VB and *)
(* jumps to the load address, followed by load of a program of three       *)
(* instruction words: one word of every arm of the decoder, then one of    *)
(* two tails.  Each step is answered by the input device with a key state  *)
(* for get_key and a key for get_key_blocking.                             *)
(***************************************************************************)
MaxFlowSteps == 2

\* The operand nibbles of the sampled words: X = A, Y = B, N = 1, NN = 0x07, NNN = 0x300
FlowOperands(p) ==
    CASE p.operands = "nnn" -> <<0, 3, 0, 0>>
      [] p.operands = "xnn" -> <<0, 10, 0, 7>>
      [] OTHER              -> <<0, 10, 11, 1>>

\* The two bytes of a word that arm k of the decoder matches
FlowWord(k) ==
    LET p == Patterns[k]
        f == [j \in 1..4 |-> IF p.nib[j] = -1 THEN FlowOperands(p)[j] ELSE p.nib[j]]
    IN  <<16 * f[1] + f[2], 16 * f[3] + f[4]>>

\* EA9E, FA0A (skip if key VA, wait for a key) and 3A07, 1300 (skip if VA = 7, jump)
FlowTails == { <<234, 158, 250, 10>>, <<58, 7, 19, 0>> }

FlowPrograms == { FlowWord(k) \o tail : k \in DOMAIN Patterns, tail \in FlowTails }

FlowSetup(v0, va, pc0) ==
    << Ins("SetRegToConst", 0, 0, v0, 0), Ins("SetRegToConst", 10, 0, va, 0),
       Ins("SetRegToConst", 11, 0, 7, 0), Ins("Goto", 0, 0, 0, pc0) >>

FlowInit ==
    \E v0 \in {0, 255}, va \in {0, 7}, pc0 \in {PC_START, 768}, program \in FlowPrograms :
        Start(load(execute_many(Emulator_new, FlowSetup(v0, va, pc0), DummyEnv), program))

\* What the input device may answer during one step
FlowEnvs == { Env(KeyNone, 3, 0), Env(KeySome(0), 12, 0), Env(KeySome(7), 3, 0) }

FlowNext == steps < MaxFlowSteps /\ \E env \in FlowEnvs : Step(env)

SpecFlow == FlowInit /\ [][FlowNext]_vars

\* The last operation was a step that fetched and decoded an instruction
Executed == last.kind = "step" /\ last.ins.op \notin {"None", "Unknown"}

RegSkips == {"IfRegEqConst", "IfRegNeqConst", "IfRegEqReg", "IfRegNeqReg"}

KeySkips == {"IfKeyEqVx", "IfKeyNeqVx"}

Jumps == {"Goto", "Call", "Return", "SetPcToV0PlusAddr"}

(***************************************************************************)
(* C21.  Skip semantics: step fetches the instruction from memory[PC],     *)
(* memory[PC+1] and advances PC by 2 before the effect (a Call stores      *)
(* old PC + 2); after SkipEq/SkipNeq, register-constant or register-       *)
(* register, PC is old PC + 4 exactly when the condition holds and         *)
(* old PC + 2 otherwise; every instruction that is not a jump, call,       *)
(* return or skip leaves PC = old PC + 2.                                  *)
(***************************************************************************)
C21_SkipSemantics ==
    Executed =>
        LET p == pre.program_counter
            ins == last.ins
            Vx == pre.registers[ins.x]
            Vy == pre.registers[ins.y]
            skipped(cond) == emulator.program_counter = IF cond THEN p + 4 ELSE p + 2
        IN  /\ emulator = execute_single(pre, from_two_u8(ArrayGet(pre.memory, p),
                                                          ArrayGet(pre.memory, p + 1)),
                                         last.env)
            /\ ins.op = "Call" => ArrayGet(emulator.stack, pre.stack_pointer) = p + 2
            /\ ins.op = "IfRegEqConst" => skipped(Vx = ins.n)
            /\ ins.op = "IfRegNeqConst" => skipped(Vx # ins.n)
            /\ ins.op = "IfRegEqReg" => skipped(Vx = Vy)
            /\ ins.op = "IfRegNeqReg" => skipped(Vx # Vy)
            /\ ins.op \notin (Jumps \cup RegSkips \cup KeySkips) =>
                    emulator.program_counter = p + 2

\* 9AB0 with VA = 0 and VB = 7 skips; 3A07 with VA = 0 does not
C21_Witness ==
    /\ Executed /\ Ok(emulator)
    /\ \/ /\ last.ins.op = "IfRegNeqReg"
          /\ pre.registers[10] # pre.registers[11]
          /\ emulator.program_counter = pre.program_counter + 4
       \/ /\ last.ins.op = "IfRegEqConst"
          /\ pre.registers[10] # last.ins.n
          /\ emulator.program_counter = pre.program_counter + 2

(***************************************************************************)
(* C22.  Jumps are absolute: from any state, Goto(a) leaves PC = a,        *)
(* Call(a) leaves PC = a and JumpV0(a) leaves PC = V0 + a, whatever the PC *)
(* was before the instruction.                                             *)
(***************************************************************************)
C22_JumpsAbsolute ==
    Executed =>
        /\ last.ins.op = "Goto" => emulator.program_counter = last.ins.addr
        /\ last.ins.op = "Call" => emulator.program_counter = last.ins.addr
        /\ last.ins.op = "SetPcToV0PlusAddr" =>
                emulator.program_counter = pre.registers[0] + last.ins.addr

(***************************************************************************)
(* C23.  Key skips: SkipKeyPressed(x) skips the next instruction           *)
(* (PC = old PC + 4) if and only if the non-blocking key query returns a   *)
(* key equal to Vx; SkipKeyNotPressed(x) skips if and only if the query    *)
(* returns no key or a key different from Vx; so for any key state and any *)
(* Vx exactly one of the two instructions skips.                           *)
(***************************************************************************)
C23_KeySkips ==
    (Executed /\ last.ins.op \in KeySkips) =>
        LET p == pre.program_counter
            x == last.ins.x
            key == last.env.key
            pressed == key.some /\ key.val = pre.registers[x]
            after(op) == execute_single(pre, Ins(op, x, 0, 0, 0), last.env).program_counter
        IN  /\ last.ins.op = "IfKeyEqVx" =>
                emulator.program_counter = IF pressed THEN p + 4 ELSE p + 2
            /\ last.ins.op = "IfKeyNeqVx" =>
                emulator.program_counter = IF ~pressed THEN p + 4 ELSE p + 2
            /\ {after("IfKeyEqVx"), after("IfKeyNeqVx")} = {p + 2, p + 4}

\* EAA1 with VA = 0 while no key is held skips: no key is not key 0
C23_Witness ==
    /\ Executed /\ last.ins.op = "IfKeyNeqVx" /\ Ok(emulator)
    /\ ~last.env.key.some /\ pre.registers[last.ins.x] = 0
    /\ emulator.program_counter = pre.program_counter + 4

\* The keys get_key_blocking can answer
Keys == 0..15

(***************************************************************************)
(* C24.  WaitKey is the only suspension point: the blocking key operation  *)
(* is invoked only while executing WaitKey, once per WaitKey, and its      *)
(* result is stored in Vx; every other instruction completes without the   *)
(* blocking operation, so its outcome is the same whatever key the         *)
(* blocking operation would have delivered.                                *)
(***************************************************************************)
C24_WaitKeyOnlySuspension ==
    Executed =>
        LET answered(k) == execute_single(pre, last.ins, [last.env EXCEPT !.blocking_key = k])
        IN  IF last.ins.op = "SetRegToGetKey"
            THEN /\ Ok(emulator)
                 /\ emulator.registers[last.ins.x] = last.env.blocking_key
                 /\ \A k \in Keys :
                        answered(k) = [emulator EXCEPT !.registers[last.ins.x] = k]
                 /\ emulator = [pre EXCEPT !.registers[last.ins.x] = last.env.blocking_key,
                                           !.program_counter = pre.program_counter + 2,
                                           !.delay_timer = Lowered(pre.delay_timer),
                                           !.sound_timer = Lowered(pre.sound_timer)]
            ELSE \A k \in Keys : answered(k) = emulator

\* FA0A answered with key 12 while VA held another value
C24_Witness ==
    /\ Executed /\ last.ins.op = "SetRegToGetKey" /\ Ok(emulator)
    /\ last.env.blocking_key = 12 /\ pre.registers[10] # 12
    /\ emulator.registers[10] = 12

(***************************************************************************)
(* KeyManager (src/bin/crossterm_frontend/key_manager.rs).                 *)
(*                                                                         *)
(* km holds the SharedData behind the mutex (key_pressed, stop,            *)
(* waiting_for_key), the owner of the mutex, the mpsc channel and whether  *)
(* its Sender is alive, the position of the engine thread (the caller of   *)
(* get_key and get_key_blocking) and of the listener thread, the system    *)
(* clock in milliseconds and, as history, the keypresses the listener      *)
(* recorded in key_pressed and the last call the engine completed.  The    *)
(* clock is taken to run forward.                                          *)
(***************************************************************************)
TIMEOUT == 250

\* The clock advances in steps of this many milliseconds
TickMs == 125

\* crossterm::event::KeyCode
Char(c) == [kind |-> "Char", c |-> c]

KeyCodeEnter == [kind |-> "Enter", c |-> ""]

KeyCodeNull == [kind |-> "Null", c |-> ""]

\* Option<(KeyCode, SystemTime)>
NoKeyPressed == [some |-> FALSE, key |-> KeyCodeNull, ts |-> 0]

SomeKeyPressed(key, ts) == [some |-> TRUE, key |-> key, ts |-> ts]

\* Option<KeyCode>
NoKeyCode == [some |-> FALSE, key |-> KeyCodeNull]

SomeKeyCode(key) == [some |-> TRUE, key |-> key]

\* crossterm::event::Event: a key event or any other
KeyEvent(key) == [is_key |-> TRUE, code |-> key]

OtherEvent == [is_key |-> FALSE, code |-> KeyCodeNull]

\* timestamp.elapsed().unwrap() < TIMEOUT
\* Mutant: a keypress of exactly the timeout still counted as fresh
Fresh_Inclusive(ts, now, timeout) == now - ts <= timeout

Fresh(ts, now, timeout) == now - ts < timeout

NoCallYet == [op |-> "none", result |-> NoKeyCode, checked_at |-> 0, seen |-> 0]

\* KeyManager::new: SharedData::new(), the channel, the listener thread spawned
KeyManager_new ==
    [ key_pressed     |-> NoKeyPressed,
      stop            |-> FALSE,
      waiting_for_key |-> FALSE,
      mutex           |-> "free",
      channel         |-> <<>>,
      sender_alive    |-> TRUE,
      engine          |-> [at |-> "idle", snapshot |-> NoKeyPressed, seen |-> 0,
                           message |-> NoKeyPressed, received_key |-> KeyCodeNull],
      listener        |-> [at |-> "read", event |-> OtherEvent],
      now             |-> 0,
      recorded        |-> <<>>,
      returned        |-> NoCallYet,
      calls           |-> 0,
      events          |-> 0 ]

MaxKmCalls == 2

MaxKmEvents == 2

MaxKmTicks == 3

KmKeyCodes == { Char("1"), Char("q") }

KmFrame == UNCHANGED <<emulator, overflow_checks, last, pre, last2, pre2, calls, steps,
                       kb, keypad, splitter>>

\* the clock moves on
KmTick ==
    /\ km.now < MaxKmTicks * TickMs
    /\ km' = [km EXCEPT !.now = @ + TickMs]
    /\ KmFrame

\* the engine thread enters get_key
CallGetKey ==
    /\ km.engine.at = "idle" /\ km.calls < MaxKmCalls
    /\ km' = [km EXCEPT !.engine.at = "get_key_read", !.calls = @ + 1]
    /\ KmFrame

\* let key_pressed = self.shared_data.lock().unwrap().key_pressed; the guard is a temporary
GetKeyRead ==
    /\ km.engine.at = "get_key_read" /\ km.mutex = "free"
    /\ km' = [km EXCEPT !.engine.at = "get_key_filter",
                        !.engine.snapshot = km.key_pressed,
                        !.engine.seen = Len(km.recorded)]
    /\ KmFrame

\* key_pressed.filter(|(_, timestamp)| timestamp.elapsed().unwrap() < TIMEOUT).map(|(key, _)| key)
GetKeyFilter ==
    /\ km.engine.at = "get_key_filter"
    /\ LET s == km.engine.snapshot
           res == IF s.some /\ Fresh(s.ts, km.now, TIMEOUT) THEN SomeKeyCode(s.key) ELSE NoKeyCode
       IN  km' = [km EXCEPT !.engine.at = "idle",
                            !.returned = [op |-> "get_key", result |-> res,
                                          checked_at |-> km.now, seen |-> km.engine.seen]]
    /\ KmFrame

\* the engine thread enters get_key_blocking
CallGetKeyBlocking ==
    /\ km.engine.at = "idle" /\ km.calls < MaxKmCalls
    /\ km' = [km EXCEPT !.engine.at = "blocking_lock", !.calls = @ + 1]
    /\ KmFrame

\* let mut guard = self.shared_data.lock().unwrap(); guard.waiting_for_key = true;
\* the guard lives to the end of the function
BlockingLock ==
    /\ km.engine.at = "blocking_lock" /\ km.mutex = "free"
    /\ km' = [km EXCEPT !.engine.at = "blocking_recv",
                        !.engine.received_key = KeyCodeNull,
                        !.mutex = "engine",
                        !.waiting_for_key = TRUE]
    /\ KmFrame

\* for (key, timestamp) in self.receiver.iter() { if timestamp.elapsed().unwrap() < TIMEOUT
\* { received_key = key; break; } }: the next message, taken if fresh and passed over if
\* not, or the end of the iteration once the Sender is gone and the channel is empty
BlockingRecv ==
    /\ km.engine.at = "blocking_recv"
    /\ \/ /\ km.channel # <<>>
          /\ km' = IF Fresh(Head(km.channel).ts, km.now, TIMEOUT)
                   THEN [km EXCEPT !.engine.at = "blocking_done",
                                   !.engine.message = Head(km.channel),
                                   !.engine.received_key = Head(km.channel).key,
                                   !.channel = Tail(km.channel)]
                   ELSE [km EXCEPT !.engine.message = Head(km.channel),
                                   !.channel = Tail(km.channel)]
       \/ /\ km.channel = <<>> /\ ~km.sender_alive
          /\ km' = [km EXCEPT !.engine.at = "blocking_done"]
    /\ KmFrame

\* guard.waiting_for_key = false; received_key: the guard is dropped at the return
BlockingDone ==
    /\ km.engine.at = "blocking_done"
    /\ km' = [km EXCEPT !.engine.at = "idle",
                        !.waiting_for_key = FALSE,
                        !.mutex = "free",
                        !.returned = [op |-> "get_key_blocking",
                                      result |-> SomeKeyCode(km.engine.received_key),
                                      checked_at |-> km.now, seen |-> Len(km.recorded)]]
    /\ KmFrame

\* impl Drop for KeyManager: self.shared_data.lock().unwrap().stop = true
Drop ==
    /\ km.engine.at = "idle" /\ km.mutex = "free"
    /\ km' = [km EXCEPT !.engine.at = "dropped", !.stop = TRUE]
    /\ KmFrame

\* let event = read().unwrap(): the terminal delivers an event
ListenerRead(event) ==
    /\ km.listener.at = "read" /\ km.events < MaxKmEvents
    /\ km' = [km EXCEPT !.listener = [at |-> "lock", event |-> event], !.events = @ + 1]
    /\ KmFrame

\* let event = read().unwrap(): read fails, the listener thread panics, its Sender is dropped
ListenerReadError ==
    /\ km.listener.at = "read"
    /\ km' = [km EXCEPT !.listener.at = "stopped", !.sender_alive = FALSE]
    /\ KmFrame

\* let mut shared_data = shared_data.lock().unwrap()
ListenerLock ==
    /\ km.listener.at = "lock" /\ km.mutex = "free"
    /\ km' = [km EXCEPT !.listener.at = "handle", !.mutex = "listener"]
    /\ KmFrame

\* if shared_data.stop { break; }  match event { ... }: the guard is dropped at the
\* end of the iteration
ListenerHandle ==
    /\ km.listener.at = "handle"
    /\ LET key_with_timestamp == SomeKeyPressed(km.listener.event.code, km.now)
       IN  km' = IF km.stop
                 THEN [km EXCEPT !.listener.at = "stopped", !.sender_alive = FALSE,
                                 !.mutex = "free"]
                 ELSE IF ~km.listener.event.is_key
                 THEN [km EXCEPT !.listener.at = "read", !.mutex = "free"]
                 ELSE IF km.waiting_for_key
                 THEN [km EXCEPT !.listener.at = "read", !.mutex = "free",
                                 !.channel = Append(@, key_with_timestamp)]
                 ELSE [km EXCEPT !.listener.at = "read", !.mutex = "free",
                                 !.key_pressed = key_with_timestamp,
                                 !.recorded = Append(@, key_with_timestamp)]
    /\ KmFrame

(***************************************************************************)
(* SpecKeyManager: the engine thread calls get_key and get_key_blocking    *)
(* while the listener thread handles the events the terminal delivers and  *)
(* the clock runs; the engine may drop the KeyManager between calls.  The  *)
(* emulator itself is at rest (the frontend is run with --release).        *)
(***************************************************************************)
KmInit ==
    /\ Core(Emulator_new)
    /\ overflow_checks = FALSE
    /\ km = KeyManager_new
    /\ kb = NoFrontend
    /\ keypad = NoFrontend
    /\ splitter = NoSplitter

KmNext ==
    \/ KmTick
    \/ CallGetKey
    \/ GetKeyRead
    \/ GetKeyFilter
    \/ CallGetKeyBlocking
    \/ BlockingLock
    \/ BlockingRecv
    \/ BlockingDone
    \/ Drop
    \/ \E key \in KmKeyCodes : ListenerRead(KeyEvent(key))
    \/ ListenerRead(OtherEvent)
    \/ ListenerReadError
    \/ ListenerLock
    \/ ListenerHandle

SpecKeyManager == KmInit /\ [][KmNext]_vars

(***************************************************************************)
(* C25.  The blocking key wait makes progress: when the engine thread is   *)
(* inside get_key_blocking, waiting on the channel, and the listener       *)
(* thread has received a key event, the listener can take the mutex and    *)
(* hand the key to the waiting caller; the two threads never reach a state *)
(* in which the engine waits for a message only the listener can send      *)
(* while the listener waits for the mutex the engine holds.                *)
(***************************************************************************)
C25_BlockingWaitProgress ==
    (km.engine.at = "blocking_recv" /\ km.channel = <<>> /\ km.sender_alive
        /\ km.listener.at = "lock" /\ km.listener.event.is_key) =>
        km.mutex # "engine"

(***************************************************************************)
(* C29.  The non-blocking key query: get_key never waits for a key event   *)
(* (it waits at most for the listener to leave its critical section,       *)
(* which needs no event), and it returns Some(k) exactly when k is the     *)
(* most recent keypress the listener recorded and that keypress is younger *)
(* than the 250 ms timeout when get_key checks it; it returns None once    *)
(* the keypress has aged past the timeout or when none was ever recorded.  *)
(***************************************************************************)
C29_NonBlockingKeyQuery ==
    /\ (km.engine.at = "get_key_read" /\ km.mutex # "free") =>
            (km.mutex = "listener" /\ km.listener.at = "handle")
    /\ km.returned.op = "get_key" =>
            LET n == km.returned.seen
            IN  km.returned.result =
                    IF n > 0 /\ km.returned.checked_at - km.recorded[n].ts < 250
                    THEN SomeKeyCode(km.recorded[n].key)
                    ELSE NoKeyCode

\* get_key returns the second of two recorded keypresses, 125 ms old
C29_Witness ==
    /\ km.returned.op = "get_key" /\ km.returned.result.some
    /\ km.returned.seen = 2
    /\ km.returned.result.key = km.recorded[2].key
    /\ km.returned.result.key # km.recorded[1].key
    /\ km.returned.checked_at - km.recorded[2].ts = 125

(***************************************************************************)
(* KeyBuffer (src/bin/crossterm_frontend/key_buffer.rs).                   *)
(*                                                                         *)
(* kb holds the timeout, the VecDeque behind the mutex, the owner of the   *)
(* mutex where a guard outlives a statement (pop_blocking), the position   *)
(* of a producer thread (push) and of a consumer thread (peek, pop,        *)
(* pop_blocking), the system clock in milliseconds and, as history, the    *)
(* last operation the consumer completed: what it returned, the clock at   *)
(* its freshness check and the buffer that check found.  A statement that  *)
(* locks, works and drops its guard is one step.                           *)
(***************************************************************************)
\* The timeout the buffer is constructed with
KbTimeout == 250

NoEntry == [some |-> FALSE, key |-> KeyCodeNull, ts |-> 0]

NoOpYet == [op |-> "none", entry |-> NoEntry, checked_at |-> 0, before |-> <<>>]

\* KeyBuffer::new(timeout)
KeyBuffer_new(timeout) ==
    [ timeout  |-> timeout,
      buffer   |-> <<>>,
      mutex    |-> "free",
      producer |-> [at |-> "idle", key_code |-> KeyCodeNull],
      consumer |-> [at |-> "idle", checked_at |-> 0, before |-> <<>>],
      now      |-> 0,
      returned |-> NoOpYet,
      pushes   |-> 0,
      ops      |-> 0 ]

\* Mutant: nothing filtered out
clean_KeepsAll(buffer, now, timeout) == buffer

\* buffer.iter().filter(|(_, ts)| ts.elapsed().unwrap() < self.timeout).collect()
clean(buffer, now, timeout) == SelectSeq(buffer, LAMBDA e : Fresh(e.ts, now, timeout))

\* The entries of the buffer that are fresh now
FreshEntries(buffer, now, timeout) ==
    {k \in DOMAIN buffer : Fresh(buffer[k].ts, now, timeout)}

MaxPushes == 2

MaxKbOps == 2

MaxKbTicks == 3

KbKeyCodes == { Char("a"), Char("b") }

KbFrame == UNCHANGED <<emulator, overflow_checks, last, pre, last2, pre2, calls, steps,
                       km, keypad, splitter>>

\* the clock moves on
KbTick ==
    /\ kb.now < MaxKbTicks * TickMs
    /\ kb' = [kb EXCEPT !.now = @ + TickMs]
    /\ KbFrame

\* push: self.clean()
Push(key_code) ==
    /\ kb.producer.at = "idle" /\ kb.pushes < MaxPushes /\ kb.mutex = "free"
    /\ kb' = [kb EXCEPT !.producer = [at |-> "push_back", key_code |-> key_code],
                        !.buffer = clean(kb.buffer, kb.now, kb.timeout),
                        !.pushes = @ + 1]
    /\ KbFrame

\* push: self.buffer.lock().unwrap().push_back((key_code, SystemTime::now()))
PushBack ==
    /\ kb.producer.at = "push_back" /\ kb.mutex = "free"
    /\ kb' = [kb EXCEPT !.producer.at = "notify",
                        !.buffer = Append(@, [key |-> kb.producer.key_code, ts |-> kb.now])]
    /\ KbFrame

\* push: self.condvar.notify_one()
Notify ==
    /\ kb.producer.at = "notify"
    /\ kb' = [kb EXCEPT !.producer.at = "idle",
                        !.consumer.at = IF @ = "wait" THEN "woken" ELSE @]
    /\ KbFrame

\* peek: self.clean()
Peek ==
    /\ kb.consumer.at = "idle" /\ kb.ops < MaxKbOps /\ kb.mutex = "free"
    /\ kb' = [kb EXCEPT !.consumer = [at |-> "peek_front", checked_at |-> kb.now,
                                      before |-> kb.buffer],
                        !.buffer = clean(kb.buffer, kb.now, kb.timeout),
                        !.ops = @ + 1]
    /\ KbFrame

\* peek: self.buffer.lock().unwrap().front().map(|(kc, _)| *kc)
PeekFront ==
    /\ kb.consumer.at = "peek_front" /\ kb.mutex = "free"
    /\ kb' = [kb EXCEPT !.consumer.at = "idle",
                        !.returned = [op |-> "peek",
                                      entry |-> IF kb.buffer = <<>> THEN NoEntry
                                                ELSE [some |-> TRUE, key |-> kb.buffer[1].key,
                                                      ts |-> kb.buffer[1].ts],
                                      checked_at |-> kb.consumer.checked_at,
                                      before |-> kb.consumer.before]]
    /\ KbFrame

\* pop: buffer_guard.pop_front().filter(|(_, ts)| ts.elapsed().unwrap() < self.timeout)
Pop ==
    /\ kb.consumer.at = "idle" /\ kb.ops < MaxKbOps /\ kb.mutex = "free"
    /\ kb' = [kb EXCEPT !.buffer = IF @ = <<>> THEN @ ELSE Tail(@),
                        !.returned = [op |-> "pop",
                                      entry |-> IF kb.buffer # <<>>
                                                   /\ Fresh(kb.buffer[1].ts, kb.now, kb.timeout)
                                                THEN [some |-> TRUE, key |-> kb.buffer[1].key,
                                                      ts |-> kb.buffer[1].ts]
                                                ELSE NoEntry,
                                      checked_at |-> kb.now,
                                      before |-> kb.buffer],
                        !.ops = @ + 1]
    /\ KbFrame

\* the consumer thread enters pop_blocking
CallPopBlocking ==
    /\ kb.consumer.at = "idle" /\ kb.ops < MaxKbOps
    /\ kb' = [kb EXCEPT !.consumer.at = "blocking_lock", !.ops = @ + 1]
    /\ KbFrame

\* pop_blocking: let mut buffer_guard = self.buffer.lock().unwrap(), and the return of
\* condvar.wait with the mutex taken again
PopBlockingLock ==
    /\ kb.consumer.at \in {"blocking_lock", "woken"} /\ kb.mutex = "free"
    /\ kb' = [kb EXCEPT !.consumer.at = "blocking_pop", !.mutex = "consumer"]
    /\ KbFrame

\* pop_blocking: one turn of the loop: pop_front, the return of a fresh key, else
\* condvar.wait, which gives up the mutex
PopBlockingPop ==
    /\ kb.consumer.at = "blocking_pop"
    /\ kb' = IF kb.buffer # <<>> /\ Fresh(kb.buffer[1].ts, kb.now, kb.timeout)
             THEN [kb EXCEPT !.consumer.at = "idle",
                             !.mutex = "free",
                             !.buffer = Tail(@),
                             !.returned = [op |-> "pop_blocking",
                                           entry |-> [some |-> TRUE, key |-> kb.buffer[1].key,
                                                      ts |-> kb.buffer[1].ts],
                                           checked_at |-> kb.now,
                                           before |-> kb.buffer]]
             ELSE [kb EXCEPT !.consumer.at = "wait",
                             !.mutex = "free",
                             !.buffer = IF @ = <<>> THEN @ ELSE Tail(@)]
    /\ KbFrame

\* condvar.wait returns without a notification (a spurious wakeup)
SpuriousWakeup ==
    /\ kb.consumer.at = "wait"
    /\ kb' = [kb EXCEPT !.consumer.at = "woken"]
    /\ KbFrame

(***************************************************************************)
(* SpecKeyBuffer: a producer thread pushes keys while a consumer thread    *)
(* peeks, pops and pops blocking, and the clock runs.                      *)
(***************************************************************************)
KbInit ==
    /\ Core(Emulator_new)
    /\ overflow_checks = FALSE
    /\ km = NoFrontend
    /\ kb = KeyBuffer_new(KbTimeout)
    /\ keypad = NoFrontend
    /\ splitter = NoSplitter

KbNext ==
    \/ KbTick
    \/ \E key_code \in KbKeyCodes : Push(key_code)
    \/ PushBack
    \/ Notify
    \/ Peek
    \/ PeekFront
    \/ Pop
    \/ CallPopBlocking
    \/ PopBlockingLock
    \/ PopBlockingPop
    \/ SpuriousWakeup

SpecKeyBuffer == KbInit /\ [][KbNext]_vars

(***************************************************************************)
(* C26.  The push/pop_blocking hand-off: a consumer in pop_blocking,       *)
(* entered before or after the push, returns a pushed key that is still    *)
(* within the timeout; more generally, whenever the buffer holds a still-  *)
(* fresh key pop_blocking returns without needing a further push: the      *)
(* consumer is never left waiting on the condition variable, no            *)
(* notification under way, while the buffer holds a fresh key.             *)
(***************************************************************************)
C26_HandOff ==
    (kb.consumer.at = "wait" /\ kb.producer.at = "idle") =>
        FreshEntries(kb.buffer, kb.now, kb.timeout) = {}

C28_PopReturnsFresh ==
    kb.returned.op = "pop" =>
        LET fresh == FreshEntries(kb.returned.before, kb.returned.checked_at, KbTimeout)
        IN  /\ kb.returned.entry.some <=> fresh # {}
            /\ kb.returned.entry.some =>
                    \E k \in fresh : /\ kb.returned.before[k].key = kb.returned.entry.key
                                     /\ kb.returned.before[k].ts = kb.returned.entry.ts

(***************************************************************************)
(* The keypad mapping of the crossterm frontend                            *)
(* (src/bin/crossterm_frontend/crossterm_io.rs, key_manager.rs).           *)
(*                                                                         *)
(* A char is a string of one character.  keypad holds the key codes the    *)
(* terminal delivers, in order, and what the mapping last made of them.    *)
(***************************************************************************)
DecimalDigits == <<"0", "1", "2", "3", "4", "5", "6", "7", "8", "9">>

LowerLetters == <<"a", "b", "c", "d", "e", "f", "g", "h", "i", "j", "k", "l", "m",
                  "n", "o", "p", "q", "r", "s", "t", "u", "v", "w", "x", "y", "z">>

UpperLetters == <<"A", "B", "C", "D", "E", "F", "G", "H", "I", "J", "K", "L", "M",
                  "N", "O", "P", "Q", "R", "S", "T", "U", "V", "W", "X", "Y", "Z">>

\* The characters of the model in the order of their code points
CodePoints == <<" ">> \o DecimalDigits \o UpperLetters \o LowerLetters

\* The place of c in seq, 0 if it has none
IndexOf(seq, c) ==
    IF \E k \in DOMAIN seq : seq[k] = c THEN CHOOSE k \in DOMAIN seq : seq[k] = c ELSE 0

\* char::to_digit(radix): '0'..'9' are 0..9, letters of either case 10..35; Some if below radix
to_digit(c, radix) ==
    LET v == IF IndexOf(DecimalDigits, c) > 0 THEN IndexOf(DecimalDigits, c) - 1
             ELSE IF IndexOf(LowerLetters, c) > 0 THEN 9 + IndexOf(LowerLetters, c)
             ELSE IF IndexOf(UpperLetters, c) > 0 THEN 9 + IndexOf(UpperLetters, c)
             ELSE -1
    IN  IF v >= 0 /\ v < radix THEN KeySome(v) ELSE KeyNone

\* (lo..hi).contains(&c): a half-open range of chars
RangeContains(lo, hi, c) ==
    /\ IndexOf(CodePoints, lo) <= IndexOf(CodePoints, c)
    /\ IndexOf(CodePoints, c) < IndexOf(CodePoints, hi)

\* KeyCode::Char(c) => c.to_digit(10).filter(|c| *c <= 0xF).map(|c| c as u8), _ => None
key_to_u8(key) ==
    IF key.kind = "Char"
    THEN LET d == to_digit(key.c, 10)
         IN  IF d.some /\ d.val <= 15 THEN d ELSE KeyNone
    ELSE KeyNone

\* The test of get_key_blocking_u8 on one fresh message: Some(i) where it breaks
AcceptedU8(key) ==
    IF /\ key.kind = "Char"
       /\ \/ RangeContains("0", "9", key.c)
          \/ RangeContains("a", "f", key.c)
    THEN to_digit(key.c, 10)
    ELSE KeyNone

\* A loop that takes key after key until the mapping of one is Some: what it returns,
\* or None while it is still waiting at the end of the keys
FirstSome(mapped) ==
    LET hits == {k \in DOMAIN mapped : mapped[k].some}
    IN  IF hits = {} THEN KeyNone
        ELSE mapped[CHOOSE k \in hits : \A j \in hits : k <= j]

\* CrosstermInput::get_key_blocking: loop { if let Some(i) = key_to_u8(get_key_blocking()) }
CrosstermInput_get_key_blocking(keys) ==
    FirstSome([k \in DOMAIN keys |-> key_to_u8(keys[k])])

\* KeyManager::get_key_blocking_u8 over fresh messages
get_key_blocking_u8(keys) ==
    FirstSome([k \in DOMAIN keys |-> AcceptedU8(keys[k])])

MaxKeypadKeys == 2

KeypadChars == { DecimalDigits[k] : k \in DOMAIN DecimalDigits } \cup
               { "a", "b", "c", "d", "e", "f", "g", "q", "A", "F", " " }

KeypadCodes == { Char(c) : c \in KeypadChars } \cup { KeyCodeEnter, KeyCodeNull }

RECURSIVE KeySequences(_)
KeySequences(n) ==
    IF n = 0 THEN { <<>> }
    ELSE { <<key>> \o rest : key \in KeypadCodes, rest \in KeySequences(n - 1) }

KeypadFrame == UNCHANGED <<emulator, overflow_checks, last, pre, last2, pre2, calls, steps,
                           km, kb, splitter>>

\* CrosstermInput::get_key with keys[1] the key KeyManager::get_key returns
InputGetKey ==
    /\ keypad.op = "none"
    /\ keypad' = [keypad EXCEPT !.op = "get_key", !.result = key_to_u8(keypad.keys[1])]
    /\ KeypadFrame

\* CrosstermInput::get_key_blocking with keys the keys get_key_blocking returns in turn
InputGetKeyBlocking ==
    /\ keypad.op = "none"
    /\ keypad' = [keypad EXCEPT !.op = "get_key_blocking",
                                !.result = CrosstermInput_get_key_blocking(keypad.keys)]
    /\ KeypadFrame

\* KeyManager::get_key_blocking_u8 with keys the fresh messages it receives in turn
GetKeyBlockingU8 ==
    /\ keypad.op = "none"
    /\ keypad' = [keypad EXCEPT !.op = "get_key_blocking_u8",
                                !.result = get_key_blocking_u8(keypad.keys)]
    /\ KeypadFrame

(***************************************************************************)
(* SpecKeypad: the terminal delivers a sequence of key codes and one of    *)
(* the three key queries of the frontend is answered from it.              *)
(***************************************************************************)
KeypadInit ==
    /\ Core(Emulator_new)
    /\ overflow_checks = FALSE
    /\ km = NoFrontend
    /\ kb = NoFrontend
    /\ \E keys \in KeySequences(MaxKeypadKeys) :
            keypad = [keys |-> keys, op |-> "none", result |-> KeyNone]
    /\ splitter = NoSplitter

KeypadNext ==
    \/ InputGetKey
    \/ InputGetKeyBlocking
    \/ GetKeyBlockingU8

SpecKeypad == KeypadInit /\ [][KeypadNext]_vars

\* The key code the documentation gives character c: '0'-'9' and 'a'-'f' give input
Keypad(c) ==
    IF IndexOf(DecimalDigits \o SubSeq(LowerLetters, 1, 6), c) > 0
    THEN KeySome(IndexOf(DecimalDigits \o SubSeq(LowerLetters, 1, 6), c) - 1)
    ELSE KeyNone

(***************************************************************************)
(* C30.  The keypad mapping of the crossterm frontend: key_to_u8 maps      *)
(* '0'..'9' to the key codes 0..9 and 'a'..'f' to the key codes 10..15 and *)
(* every other key to no key; no value outside 0..15 is ever returned by   *)
(* a key query.                                                            *)
(***************************************************************************)
C30_KeypadMapping ==
    /\ keypad.op = "get_key" =>
            keypad.result = IF keypad.keys[1].kind = "Char"
                            THEN Keypad(keypad.keys[1].c) ELSE KeyNone
    /\ keypad.op # "none" => (keypad.result.some => keypad.result.val \in 0..15)

(***************************************************************************)
(* SpecReload: the driver loads a short program on a new emulator, steps   *)
(* it and loads again, so that load is called with the program counter     *)
(* at 0x200, behind an executed instruction and at a jump target.          *)
(***************************************************************************)
MaxReloadSteps == 3

\* 6A07: SetRegToConst(VA, 7); 1200: Goto(0x200); 1300: Goto(0x300);
\* FA15: SetDelayTimerToReg(VA); 2300: Call(0x300)
ReloadPrograms ==
    { <<106, 7>>,
      <<106, 7, 18, 0>>,
      <<19, 0>>,
      <<106, 7, 250, 21>>,
      <<35, 0>> }

ReloadInit == \E program \in ReloadPrograms : Start(load(Emulator_new, program))

ReloadNext ==
    /\ steps < MaxReloadSteps
    /\ \/ \E program \in ReloadPrograms : Load(program)
       \/ Step(DummyEnv)

SpecReload == ReloadInit /\ [][ReloadNext]_vars

(***************************************************************************)
(* C31.  load always targets 0x200: from any reachable machine state,      *)
(* including after any number of executed steps, load(bytes) writes        *)
(* bytes[k] to memory[0x200 + k] for each copied k and changes no memory   *)
(* below 0x200, no register, no timer, no stack entry and not the PC.      *)
(***************************************************************************)
C31_LoadTargets0x200 ==
    (last.kind = "load" /\ Ok(emulator)) =>
        LET program == last.program
            len == Min(Len(program), MEM_SIZE - PC_START)
        IN  /\ \A k \in 0..(len - 1) :
                  ArrayGet(emulator.memory, PC_START + k) = program[k + 1]
            /\ \A a \in 0..(PC_START - 1) :
                  ArrayGet(emulator.memory, a) = ArrayGet(pre.memory, a)
            /\ emulator.registers = pre.registers
            /\ emulator.delay_timer = pre.delay_timer
            /\ emulator.sound_timer = pre.sound_timer
            /\ emulator.stack = pre.stack
            /\ emulator.program_counter = pre.program_counter

\* The second nibbles congruent modulo 4 to that of `left`: Lefts holds one second
\* nibble of each class (0, 1, 0xA, 0xF)
SecondNibbles(left) == { x \in 0..15 : x % 4 = left % 4 }

WithSecondNibble(left, x) == 16 * (left \div 16) + x

(***************************************************************************)
(* C32.  BitField extraction is total and exact: for every byte pair       *)
(* (high, low), as_u16 = high * 256 + low, as_four_u8 = (high div 16,      *)
(* high mod 16, low div 16, low mod 16) most-significant nibble first,     *)
(* last_8_bits = low, last_12_bits = as_u16 mod 4096, and each result is   *)
(* a value of its type (none of them can fail).  Checked for the word the  *)
(* last step fetched and the words that share its other three nibbles and  *)
(* the second nibble modulo 4: over the fetched words all 65536 pairs.     *)
(***************************************************************************)
C32_BitFieldExact ==
    Stepped =>
        \A x \in SecondNibbles(Left) :
            LET high == WithSecondNibble(Left, x)
                low == Right
                word == as_u16(high, low)
                nibbles == as_four_u8(high, low)
            IN  /\ word = high * 256 + low
                /\ word \in 0..(U16 - 1)
                /\ nibbles = << high \div 16, high % 16, low \div 16, low % 16 >>
                /\ \A k \in 1..4 : nibbles[k] \in 0..15
                /\ last_8_bits(high, low) = low
                /\ last_12_bits(high, low) = word % 4096

\* The step that fetched AF CD: 0xAFCD, nibbles A, F, C, D, last 12 bits 0xFCD
C32_Witness ==
    /\ Stepped /\ Left = 175 /\ Right = 205
    /\ as_u16(Left, Right) = 45005
    /\ as_four_u8(Left, Right) = <<10, 15, 12, 13>>
    /\ last_8_bits(Left, Right) = 205
    /\ last_12_bits(Left, Right) = 4045
    /\ last.ins = Ins("SetI", 0, 0, 0, 4045)

(***************************************************************************)
(* C33.  ClearScreen clears the whole screen: after ClearScreen, get(x, y) *)
(* = 0 for every cell, whatever was drawn before, and the instruction      *)
(* changes no register, no memory byte, not I and not the stack.           *)
(***************************************************************************)
C33_ClearScreenClearsAll ==
    Ran("ClearScreen") =>
        /\ \A c \in (DOMAIN emulator.output) \cup (DOMAIN pre.output)
                        \cup (DOMAIN pre2.output) :
              Cell(emulator, c) = 0
        /\ emulator.registers = pre.registers
        /\ emulator.memory = pre.memory
        /\ emulator.i = pre.i
        /\ emulator.stack = pre.stack
        /\ emulator.stack_pointer = pre.stack_pointer

\* A ClearScreen on a screen with a lit cell, which is dark afterwards
C33_Witness ==
    /\ Ran("ClearScreen")
    /\ \E c \in DOMAIN pre.output : Cell(pre, c) = 1 /\ Cell(emulator, c) = 0

\* The last two operations were SetDelayTimerToReg and then SetRegToDelayTimer
SetThenRead ==
    /\ Ran("SetRegToDelayTimer")
    /\ last2.kind \in {"execute_single", "step"}
    /\ last2.ins.op = "SetDelayTimerToReg"

(***************************************************************************)
(* C34.  Timer set-then-read ordering: SetDelay(x) stores Vx after that    *)
(* instruction's own timer decrement, so immediately after it the delay    *)
(* timer equals Vx exactly; a SetRegFromDelay(y) executed as the very next *)
(* instruction reads max(Vx - 1, 0), because its own decrement happens     *)
(* before the read.                                                        *)
(***************************************************************************)
C34_SetThenReadOrdering ==
    /\ Ran("SetDelayTimerToReg") =>
          /\ emulator.delay_timer = pre.registers[last.ins.x]
          /\ emulator.delay_timer = emulator.registers[last.ins.x]
    /\ SetThenRead =>
          LET vx == pre2.registers[last2.ins.x]
          IN  /\ emulator.registers[last.ins.x] = (IF vx - 1 > 0 THEN vx - 1 ELSE 0)
              /\ emulator.delay_timer = emulator.registers[last.ins.x]

\* SetDelay(VB) with VB = 255 and a delay timer of another value, then
\* SetRegFromDelay(VA), which reads 254
C34_Witness ==
    /\ SetThenRead
    /\ pre2.registers[last2.ins.x] = 255
    /\ pre2.delay_timer # 255
    /\ pre.delay_timer = 255
    /\ emulator.registers[last.ins.x] = 254

(***************************************************************************)
(* SpecEdge: memory accesses at the end of memory.  The initial states are *)
(* reached from a new emulator by execute_many of a set-up that leaves I   *)
(* at, just below or above 0xFFF (I = a + V0, by SetI and AddRegToI) and   *)
(* VF at 1.                                                                *)
(* Then the instructions that address memory through I run, or a jump to   *)
(* the last addresses followed by step.                                    *)
(***************************************************************************)
MaxEdgeSteps == 2

EdgeAddrs == {4080, 4091, 4093, 4094, 4095}

EdgeV0s == {0, 1, 255}

EdgeSetup(a, v0) ==
    << Ins("SetRegToConst", 0, 0, v0, 0), Ins("SetRegToConst", 1, 0, 129, 0),
       Ins("SetRegToConst", VF, 0, 1, 0),
       Ins("SetI", 0, 0, 0, a), Ins("AddRegToI", 0, 0, 0, 0) >>

EdgeInit ==
    \E a \in EdgeAddrs, v0 \in EdgeV0s :
        Start(execute_many(Emulator_new, EdgeSetup(a, v0), DummyEnv))

EdgeInstrs ==
    { Ins("Draw", 0, 1, n, 0) : n \in {0, 1, 2, 15} }
    \cup { Ins(op, x, 0, 0, 0) : op \in {"RegDump", "RegLoad"}, x \in {0, 1, 15} }
    \cup { Ins("SetIToBcdOfReg", 1, 0, 0, 0) }
    \cup { Ins("Goto", 0, 0, 0, a) : a \in {4094, 4095} }
    \cup { Ins("SetPcToV0PlusAddr", 0, 0, 0, 4095) }

EdgeNext ==
    /\ steps < MaxEdgeSteps
    /\ \/ \E ins \in EdgeInstrs : ExecuteSingle(ins, DummyEnv)
       \/ Step(DummyEnv)

SpecEdge == EdgeInit /\ [][EdgeNext]_vars

\* The panics of an index or a slice range outside the array
OutOfRangeFault(st) ==
    st.fault \in {"index out of bounds", "range end index out of range for slice"}

\* The last operation was a step whose fetch needs an address above 0xFFF
FetchOutOfRange == last.kind = "step" /\ pre.program_counter + 1 > MEM_SIZE - 1

\* The last operation was instruction `op` whose highest I-relative address,
\* I + span, is above 0xFFF
AccessOutOfRange(op, span) == Did(op) /\ pre.i + span > MEM_SIZE - 1

(***************************************************************************)
(* C35.  Out-of-range memory access faults and never wraps: whenever an    *)
(* instruction fetch (PC or PC + 1 > 0xFFF) or an I-relative access (Draw  *)
(* reading I..I+n-1, StoreBCD writing I..I+2, RegDump/RegLoad touching     *)
(* I..I+x) would use an address above 0xFFF, execution halts with a fault; *)
(* no such access is redirected to an address inside 0x000..0xFFF: what    *)
(* is read or written before the fault is at the addresses I + k <= 0xFFF. *)
(***************************************************************************)
C35_OutOfRangeFaults ==
    /\ FetchOutOfRange =>
          /\ OutOfRangeFault(emulator)
          /\ [emulator EXCEPT !.fault = "none"] = pre
    /\ (Did("Draw") /\ last.ins.n > 0 /\ pre.i + last.ins.n - 1 > MEM_SIZE - 1) =>
          /\ OutOfRangeFault(emulator)
          /\ emulator.output = pre.output
          /\ emulator.registers = pre.registers
    /\ AccessOutOfRange("SetIToBcdOfReg", 2) =>
          /\ OutOfRangeFault(emulator)
          /\ emulator.memory = pre.memory
    /\ AccessOutOfRange("RegDump", last.ins.x) =>
          /\ OutOfRangeFault(emulator)
          /\ \A a \in 0..(MEM_SIZE - 1) :
                ArrayGet(emulator.memory, a) =
                    IF a >= pre.i THEN pre.registers[a - pre.i]
                    ELSE ArrayGet(pre.memory, a)
          /\ DOMAIN emulator.memory \subseteq 0..(MEM_SIZE - 1)
    /\ AccessOutOfRange("RegLoad", last.ins.x) =>
          /\ OutOfRangeFault(emulator)
          /\ \A r \in 0..(NUM_REGISTERS - 1) :
                emulator.registers[r] =
                    IF pre.i + r <= MEM_SIZE - 1 THEN ArrayGet(pre.memory, pre.i + r)
                    ELSE pre.registers[r]

\* A fetch at PC = 0xFFF after Goto(0xFFF), which faults
C35_Witness ==
    /\ FetchOutOfRange /\ pre.program_counter = 4095
    /\ last2.ins.op = "Goto"
    /\ emulator.fault = "index out of bounds"

(***************************************************************************)
(* SpecReg: the register instructions that report no flag (6XNN, 7XNN,     *)
(* 8XY0..8XY3) on VA, with VA itself, VB and VF as the second operand.     *)
(* The initial states are emulators whose registers VA, VB, VF hold        *)
(* sampled bytes; SetRegToConst and Goto(0x200) reach each of them.        *)
(***************************************************************************)
MaxRegSteps == 2

FlagFreeOps ==
    {"SetRegToConst", "IncRegByConst", "SetRegToReg", "BitwiseOr", "BitwiseAnd", "BitwiseXor"}

RegInit ==
    \E a \in {0, 183, 255}, b \in {0, 85, 255}, f \in FlagSamples :
        Start([Emulator_new EXCEPT !.registers[10] = a,
                                   !.registers[11] = b,
                                   !.registers[15] = f])

RegInstrs ==
    { Ins("SetRegToConst", 10, 0, n, 0) : n \in {0, 200} }
    \cup { Ins("IncRegByConst", 10, 0, n, 0) : n \in {1, 73, 255} }
    \cup { Ins(op, 10, y, 0, 0) :
             op \in {"SetRegToReg", "BitwiseOr", "BitwiseAnd", "BitwiseXor"},
             y \in AluRegs }

RegNext ==
    /\ steps < MaxRegSteps
    /\ \E ins \in RegInstrs : ExecuteSingle(ins, DummyEnv)

SpecReg == RegInit /\ [][RegNext]_vars

\* Bit k of the result of the flag-free operation `op` on bits a and b
\* (b is the bit of Vy, or of the constant)
FlagFreeBit(op, a, b) ==
    CASE op = "BitwiseOr"  -> IF a + b > 0 THEN 1 ELSE 0
      [] op = "BitwiseAnd" -> a * b
      [] op = "BitwiseXor" -> (a + b) % 2
      [] OTHER             -> b

(***************************************************************************)
(* C36.  Flag-free register ops leave VF alone: SetConst, SetReg, OR, AND, *)
(* XOR and AddConst executed with x # 0xF change only Vx (plus PC and the  *)
(* timer decrement); VF and every other register keep their values, and    *)
(* AddConst wraps modulo 256 without reporting carry.                      *)
(***************************************************************************)
C36_FlagFreeOps ==
    (\E op \in FlagFreeOps : Did(op) /\ last.ins.x # VF) =>
        /\ Ok(emulator)
        /\ \A r \in 0..(NUM_REGISTERS - 1) :
              r # last.ins.x => emulator.registers[r] = pre.registers[r]
        /\ emulator.registers[VF] = pre.registers[VF]
        /\ IF last.ins.op = "IncRegByConst"
           THEN NowVx = (PreVx + last.ins.n) % 256
           ELSE \A k \in 0..7 :
                   Bit(NowVx, k) =
                       FlagFreeBit(last.ins.op, Bit(PreVx, k),
                                   IF last.ins.op = "SetRegToConst"
                                   THEN Bit(last.ins.n, k) ELSE Bit(PreVy, k))
        /\ NowVx \in 0..255
        /\ emulator.program_counter = pre.program_counter + 2
        /\ emulator.delay_timer = Lowered(pre.delay_timer)
        /\ emulator.sound_timer = Lowered(pre.sound_timer)
        /\ emulator.memory = pre.memory
        /\ emulator.i = pre.i
        /\ emulator.stack = pre.stack
        /\ emulator.stack_pointer = pre.stack_pointer
        /\ emulator.output = pre.output

\* AddConst(VA, 73) on VA = 255 with VF = 254: VA wraps to 72, VF is still 254
C36_Witness ==
    /\ Ran("IncRegByConst") /\ last.ins.x = 10 /\ last.ins.n = 73
    /\ PreVx = 255 /\ NowVx = 72
    /\ pre.registers[VF] = 254 /\ emulator.registers[VF] = 254

\* The instructions whose arm assigns to self.memory
MemoryWriters == {"SetIToBcdOfReg", "RegDump"}

\* The last operation ran an instruction, decoded or given, to its end or to a panic
Instructed == last.kind \in {"execute_single", "step"} /\ last.ins.op \notin {"None", "Unknown"}

\* The last instruction was a StoreBCD or RegDump at an I below the end of the font
TargetsFont == Instructed /\ last.ins.op \in MemoryWriters /\ pre.i < Len(FONT)

(***************************************************************************)
(* C37.  Memory write frame: during execution only StoreBCD and RegDump    *)
(* write to memory; every other instruction (including Draw, RegLoad, Call *)
(* and Return) leaves all 4096 memory bytes unchanged, so the font table   *)
(* at 0x000..0x04F, intact before an instruction, is intact after it       *)
(* unless the instruction is a StoreBCD or RegDump with I below 0x050.     *)
(***************************************************************************)
C37_MemoryWriteFrame ==
    /\ (Instructed /\ last.ins.op \notin MemoryWriters) =>
          emulator.memory = pre.memory
    /\ (Instructed /\ FontIntact(pre) /\ ~TargetsFont) => FontIntact(emulator)

\* A Call, which writes the stack and leaves memory and the font as they were
C37_Witness ==
    /\ Ran("Call")
    /\ emulator.stack # pre.stack
    /\ emulator.memory = pre.memory
    /\ FontIntact(emulator)

\* The instructions whose arm calls clear or set on the output
ScreenWriters == {"ClearScreen", "Draw"}

\* The last instruction was a Draw of a sprite of no rows
EmptyDraw == Did("Draw") /\ last.ins.n = 0

\* Every instruction other than ClearScreen and Draw leaves the screen as it was
OtherInstructionsKeepScreen ==
    (Instructed /\ last.ins.op \notin ScreenWriters) => emulator.output = pre.output

(***************************************************************************)
(* C38.  Output frame: the engine changes screen cells only while          *)
(* executing ClearScreen or Draw; every other instruction makes no set or  *)
(* clear call on the output sink, and Draw with n = 0 changes no cell and  *)
(* leaves VF = 0.                                                          *)
(***************************************************************************)
C38_OutputFrame ==
    /\ OtherInstructionsKeepScreen
    /\ EmptyDraw =>
          /\ Ok(emulator)
          /\ emulator.output = pre.output
          /\ emulator.registers[VF] = 0

(***************************************************************************)
(* C38, amended.  As above, but Draw with n = 0 leaves VF = 0 only while   *)
(* I <= 0x1000: with I above the end of memory the empty sprite range      *)
(* faults, and the instruction changes no cell and no register.            *)
(***************************************************************************)
C38_OutputFrameAmended ==
    /\ OtherInstructionsKeepScreen
    /\ EmptyDraw =>
          /\ emulator.output = pre.output
          /\ IF pre.i <= MEM_SIZE
             THEN Ok(emulator) /\ emulator.registers[VF] = 0
             ELSE OutOfRangeFault(emulator) /\ emulator.registers = pre.registers

\* Draw with n = 0 at I = 0x1000 with VF = 1: the screen is as before, VF = 0
C38_Witness ==
    /\ EmptyDraw /\ Ok(emulator)
    /\ pre.i = MEM_SIZE
    /\ pre.registers[VF] = 1 /\ emulator.registers[VF] = 0
    /\ emulator.output = pre.output

(***************************************************************************)
(* SpecRandom: every instruction under an environment that answers the key *)
(* queries and supplies the random byte.  The initial state is reached     *)
(* from a new emulator by the set-up of SpecTimer (VA = 3, VB = 4, both    *)
(* timers running).  SetVxRand runs with several masks and random bytes,   *)
(* the key instructions with several answers of the input device.          *)
(***************************************************************************)
MaxRandomSteps == 2

RandSamples == {0, 90, 255}

RandMasks == {0, 15, 240}

RandomInit == Start(execute_many(Emulator_new, TimerSetup(4, 2), DummyEnv))

RandomInstrs ==
    { Ins(Patterns[k].op, 10, 11, 1, 768) : k \in DOMAIN Patterns }
    \cup { Ins("SetVxRand", 10, 0, mask, 0) : mask \in RandMasks }

\* What the environment may answer while instruction `ins` runs
RandomEnvs(ins) ==
    CASE ins.op = "SetVxRand"                    -> { Env(KeyNone, 0, r) : r \in RandSamples }
      [] ins.op \in {"IfKeyEqVx", "IfKeyNeqVx"} -> { Env(KeyNone, 0, 0), Env(KeySome(3), 0, 0) }
      [] ins.op = "SetRegToGetKey"               -> { Env(KeyNone, 3, 0), Env(KeyNone, 12, 0) }
      [] OTHER                                   -> { DummyEnv }

RandomNext ==
    /\ steps < MaxRandomSteps
    /\ \E ins \in RandomInstrs : \E env \in RandomEnvs(ins) : ExecuteSingle(ins, env)

SpecRandom == RandomInit /\ [][RandomNext]_vars

\* The environments that give the key answers of `env` and any random byte
SameKeys(env) == { Env(env.key, env.blocking_key, r) : r \in RandSamples }

\* The last operation was execute_single of an instruction other than SetVxRand
NoRand(op) == op.kind = "execute_single" /\ op.ins.op # "SetVxRand"

(***************************************************************************)
(* C39.  Determinism: two machines that start in equal states and receive  *)
(* the same key-query answers end in equal states after executing the same *)
(* instruction sequence, provided the sequence contains no Rand: a second  *)
(* machine started in the state before the last one or two instructions    *)
(* and given the same key answers ends in the state of the first, whatever *)
(* its random source holds.  Rand(x, mask) depends on the random byte in   *)
(* Vx only and always leaves Vx with no bit set outside mask.              *)
(***************************************************************************)
C39_Determinism ==
    /\ NoRand(last) =>
          \A e \in SameKeys(last.env) :
              execute_single(pre, last.ins, e) = emulator
    /\ (NoRand(last) /\ NoRand(last2)) =>
          \A e2 \in SameKeys(last2.env), e \in SameKeys(last.env) :
              execute_single(execute_single(pre2, last2.ins, e2), last.ins, e) = emulator
    /\ Did("SetVxRand") =>
          /\ \A k \in 0..7 : Bit(last.ins.n, k) = 0 => Bit(NowVx, k) = 0
          /\ NowVx \in 0..255
          /\ \A e \in SameKeys(last.env) :
                [execute_single(pre, last.ins, e) EXCEPT
                    !.registers[last.ins.x] = NowVx] = emulator

\* Rand(VA, 0x0F) after another instruction, with the random byte 0x5A: VA = 0x0A,
\* and a machine with another random byte ends in another state
C39_Witness ==
    /\ Ran("SetVxRand") /\ NoRand(last2)
    /\ last.ins.n = 15 /\ last.env.rand = 90 /\ NowVx = 10
    /\ \E e \in SameKeys(last.env) : execute_single(pre, last.ins, e) # emulator

(***************************************************************************)
(* SpecSplitter: BitSplitter::get.  A BitSplitter holds one of the sampled *)
(* words (those of the tests of src/bit_splitter.rs among them) and get is *)
(* called once with a start and an end up to MaxBitIndex, in either build. *)
(***************************************************************************)
MaxBitIndex == 18

\* 0x0000, 0x8001, 0xABCD, 0xFFFF as (left, right)
SplitterWords == { <<0, 0>>, <<128, 1>>, <<171, 205>>, <<255, 255>> }

SplitterFrame ==
    UNCHANGED <<emulator, overflow_checks, last, pre, last2, pre2, calls, steps,
                km, kb, keypad>>

\* BitSplitter::new(left, right).get(start, end)
Get ==
    /\ splitter.op = "none"
    /\ splitter' = [splitter EXCEPT
                       !.op = "get",
                       !.result = get(splitter.left, splitter.right,
                                      splitter.start, splitter.end)]
    /\ SplitterFrame

SplitterInit ==
    /\ Core(Emulator_new)
    /\ km = NoFrontend
    /\ kb = NoFrontend
    /\ keypad = NoFrontend
    /\ \E word \in SplitterWords, start \in 0..MaxBitIndex, end \in 0..MaxBitIndex :
           splitter = [left |-> word[1], right |-> word[2], start |-> start, end |-> end,
                       op |-> "none", result |-> GetNone]

SplitterNext == Get

SpecSplitter == SplitterInit /\ [][SplitterNext]_vars

\* The word of the BitSplitter under test
SplitterWord == splitter.left * 256 + splitter.right

(***************************************************************************)
(* C40.  BitSplitter::get(start, end) returns None if and only if          *)
(* end > 16; for all 0 <= start <= end <= 16 it returns Some of the value  *)
(* formed by the bits at positions start..end-1 counted from the most      *)
(* significant bit of the 16-bit word, that is                             *)
(* (word mod 2^(16-start)) div 2^(16-end), without faulting.               *)
(***************************************************************************)
C40_GetExtractsBits ==
    splitter.op = "get" =>
        /\ (splitter.result = GetNone) <=> (splitter.end > 16)
        /\ (splitter.start <= splitter.end /\ splitter.end <= 16) =>
              splitter.result =
                  GetSome((SplitterWord % (2 ^ (16 - splitter.start)))
                              \div (2 ^ (16 - splitter.end)))

====
